---- MODULE Spec2Model ----
(***************************************************************************)
(* PVT (position-velocity-time) sequences of                               *)
(* src/src/motion_pvt_sequence_generation/pvt.py: Point, Segment,          *)
(* Sequence, the continuous-acceleration solvers and the CSV dispatch.     *)
(*                                                                         *)
(* Numbers are exact: a rational is <<numerator, denominator>> in lowest   *)
(* terms with a positive denominator, and a number that is not rational is *)
(* a rational plus rational multiples of square roots, so the arithmetic   *)
(* of the source is followed without rounding.  A time handed to an        *)
(* evaluation is a pair [s, e] standing for s + e * 1e-14, which makes the *)
(* 1e-14 tolerance of the range checks visible.  Sequences are 1-based     *)
(* here: index i of the model is index i - 1 of the source.                *)
(***************************************************************************)
EXTENDS Integers, Sequences, FiniteSets, TLC

VARIABLES
    points,             \* Sequence._points of the Sequence built or returned last
    segments,           \* Sequence._segments of that Sequence
    call,               \* the last call made and how it ended
    time_sequence,      \* the caller's list of times
    position_sequences, \* the caller's lists of positions, one per axis
    velocity_sequences, \* the caller's lists of velocities (None where missing)
    velocity_input,     \* velocity_sequences as it was when the last call began
    csv,                \* the CSV file: its header row and its data rows
    rounding            \* how the floats round at each point where a path turns back

lists == <<time_sequence, position_sequences, velocity_sequences, velocity_input>>
files == <<csv, rounding>>
vars == <<points, segments, call, lists, files>>

\* A Python list: its entries are computed when the list is built, not each
\* time one of them is read.
List(entries) == entries \o <<>>

(***************************************************************************)
(* Bounds of the model.                                                    *)
(***************************************************************************)
MaxPoints == 3      \* longest Sequence built by append_point
MaxTime == 2        \* point times are drawn from 0 .. MaxTime

(***************************************************************************)
(* Exact arithmetic.                                                       *)
(***************************************************************************)
Abs(x) == IF x < 0 THEN -x ELSE x

RECURSIVE GCD(_, _)
GCD(a, b) == IF b = 0 THEN a ELSE GCD(b, a % b)

Rat(n, d) ==
    IF n = 0
    THEN <<0, 1>>
    ELSE IF d = 1
    THEN <<n, 1>>
    ELSE LET g == GCD(Abs(n), Abs(d))
             s == IF d < 0 THEN -1 ELSE 1
         IN  <<(s * n) \div g, (s * d) \div g>>

R(n) == <<n, 1>>
Zero == R(0)

LCM(a, b) == (a \div GCD(a, b)) * b

\* Sums, differences, products and quotients, not reduced to lowest terms
\* (the denominator stays positive); Norm reduces a result.  Sums are taken
\* over the least common denominator.
Add(a, b) ==
    IF a[2] = b[2]
    THEN <<a[1] + b[1], a[2]>>
    ELSE <<a[1] * (LCM(a[2], b[2]) \div a[2]) + b[1] * (LCM(a[2], b[2]) \div b[2]),
           LCM(a[2], b[2])>>
Sub(a, b) ==
    IF a[2] = b[2]
    THEN <<a[1] - b[1], a[2]>>
    ELSE <<a[1] * (LCM(a[2], b[2]) \div a[2]) - b[1] * (LCM(a[2], b[2]) \div b[2]),
           LCM(a[2], b[2])>>
Mul(a, b) == <<a[1] * b[1], a[2] * b[2]>>
Div(a, b) == IF b[1] < 0 THEN <<-(a[1] * b[2]), -(a[2] * b[1])>>
                         ELSE <<a[1] * b[2], a[2] * b[1]>>
Sq(a) == Mul(a, a)
Cube(a) == Mul(a, Mul(a, a))
Norm(a) == Rat(a[1], a[2])

RAdd(a, b) == Norm(Add(a, b))
RSub(a, b) == Norm(Sub(a, b))
RMul(a, b) == Norm(Mul(a, b))
RDiv(a, b) == Norm(Div(a, b))
RLt(a, b) == a[1] * b[2] < b[1] * a[2]
RLe(a, b) == a[1] * b[2] <= b[1] * a[2]

(***************************************************************************)
(* Rationals in lowest terms.  The values met in the speed-profile         *)
(* generator have large denominators, so sums and comparisons go through   *)
(* the least common denominator.                                           *)
(***************************************************************************)
RAbs(a) == <<Abs(a[1]), a[2]>>

QAdd(a, b) ==
    IF a[2] = b[2]
    THEN Rat(a[1] + b[1], a[2])
    ELSE LET l == LCM(a[2], b[2])
         IN  Rat(a[1] * (l \div a[2]) + b[1] * (l \div b[2]), l)
QNeg(a) == <<-a[1], a[2]>>
QSub(a, b) == QAdd(a, QNeg(b))
QMul(a, b) ==
    IF a[1] = 0 \/ b[1] = 0
    THEN Zero
    ELSE LET g1 == GCD(Abs(a[1]), b[2])
             g2 == GCD(Abs(b[1]), a[2])
         IN  <<(a[1] \div g1) * (b[1] \div g2), (a[2] \div g2) * (b[2] \div g1)>>
QInv(a) == IF a[1] < 0 THEN <<-a[2], -a[1]>> ELSE <<a[2], a[1]>>
QDiv(a, b) == QMul(a, QInv(b))
QSq(a) == <<a[1] * a[1], a[2] * a[2]>>
QLt(a, b) ==
    IF a[2] = b[2]
    THEN a[1] < b[1]
    ELSE LET l == LCM(a[2], b[2])
         IN  a[1] * (l \div a[2]) < b[1] * (l \div b[2])
QLe(a, b) == ~QLt(b, a)
Sign(a) == IF a[1] > 0 THEN 1 ELSE IF a[1] < 0 THEN -1 ELSE 0

RECURSIVE QSum(_, _)
QSum(list, i) == IF i = 0 THEN Zero ELSE QAdd(list[i], QSum(list, i - 1))

\* The largest integer whose square is at most n (Newton's iteration).
RECURSIVE ISqrtFrom(_, _)
ISqrtFrom(n, x) ==
    LET y == (x + n \div x) \div 2
    IN  IF y >= x THEN x ELSE ISqrtFrom(n, y)

ISqrt(n) == IF n < 2 THEN n ELSE ISqrtFrom(n, n)

(***************************************************************************)
(* Numbers that need not be rational.  A number is a rational <<n, d>> or  *)
(* <<n, d, roots>>, which stands for n / d plus the sum of                 *)
(* roots[r] * r ** 0.5 over the r in DOMAIN roots: every such r is a       *)
(* squarefree integer above 1 and every roots[r] a rational other than 0.  *)
(* A number has one such form, so two numbers are equal when their forms   *)
(* are.  The entry roots[0] is the part of a number that is beyond every   *)
(* bound, in units of Huge: such a number has the sign of roots[0].  The   *)
(* entry roots[-1] is the part of the size of a rounding error, in units   *)
(* of Small: it gives a number its sign where the number has no other part.*)
(***************************************************************************)
\* A table: its values are computed when the table is built.
Table(entries) == entries @@ <<>>

\* A number that is rational
Rational(x) == CASE Len(x) = 2 -> x

RationalPart(x) == <<x[1], x[2]>>
Roots(x) == IF Len(x) = 2 THEN <<>> ELSE x[3]
Coefficient(x, r) == IF r \in DOMAIN Roots(x) THEN Roots(x)[r] ELSE Zero

Number(q, roots) ==
    IF \A r \in DOMAIN roots : roots[r] = Zero
    THEN q
    ELSE <<q[1], q[2], Table([r \in {k \in DOMAIN roots : roots[k] # Zero} |-> roots[r]])>>

NAdd(x, y) ==
    IF Len(x) = 2 /\ Len(y) = 2
    THEN QAdd(x, y)
    ELSE Number(QAdd(RationalPart(x), RationalPart(y)),
                Table([r \in DOMAIN Roots(x) \cup DOMAIN Roots(y) |->
                          QAdd(Coefficient(x, r), Coefficient(y, r))]))

\* q * x for a rational q
NScale(q, x) ==
    IF Len(x) = 2 THEN QMul(q, x)
    ELSE IF q = Zero THEN Zero
    ELSE <<QMul(q, RationalPart(x))[1], QMul(q, RationalPart(x))[2],
           Table([r \in DOMAIN x[3] |-> QMul(q, x[3][r])])>>

NNeg(x) == IF Len(x) = 2 THEN QNeg(x) ELSE NScale(R(-1), x)
NSub(x, y) == NAdd(x, NNeg(y))

Largest(S) == CHOOSE s \in S : \A t \in S : t <= s

\* The largest s whose square divides n, n > 0
SquarePart(n) == Largest({s \in 1 .. ISqrt(n) : n % (s * s) = 0})

\* The root of x = (s1^2 * f1) / (s2^2 * f2), f1 and f2 squarefree:
\* (s1 / (s2 * f2)) * (f1 * f2) ** 0.5
RootOfParts(f1, f2, s1, s2) ==
    IF f1 * f2 = 1 THEN Rat(s1, s2)
    ELSE <<0, 1, (f1 * f2) :> Rat(s1, s2 * f2)>>

\* x ** 0.5 for a rational x >= 0
sqrt(x) ==
    IF x[1] = 0 THEN Zero
    ELSE RootOfParts(x[1] \div (SquarePart(x[1]) * SquarePart(x[1])),
                     x[2] \div (SquarePart(x[2]) * SquarePart(x[2])),
                     SquarePart(x[1]), SquarePart(x[2]))

\* The terms c * r ** 0.5 of a number as pairs <<r, c>>, the rational part
\* being the term of r = 1
Terms(x) ==
    (IF x[1] = 0 THEN {} ELSE {<<1, RationalPart(x)>>})
    \cup {<<r, Roots(x)[r]>> : r \in DOMAIN Roots(x)}

TermNumber(t) == IF t[1] = 1 THEN t[2] ELSE <<0, 1, t[1] :> t[2]>>
TermSquare(t) == QMul(t[2], QMul(t[2], R(t[1])))
OneOf(S) == CHOOSE t \in S : TRUE

\* x ** 2 for a number of one term
Square(x) ==
    CASE Len(x) = 2 -> QMul(x, x)
      [] Len(x) = 3 /\ Cardinality(Terms(x)) = 1 -> TermSquare(OneOf(Terms(x)))

\* 1 / x for a number of one term, and of two: 1 / (a + b) is
\* (a - b) / (a^2 - b^2)
InverseOfTwo(a, b) ==
    NScale(QInv(QSub(TermSquare(a), TermSquare(b))), NSub(TermNumber(a), TermNumber(b)))

NInv(x) ==
    CASE Len(x) = 2 -> QInv(x)
      [] Len(x) = 3 /\ Cardinality(Terms(x)) = 1 ->
            <<0, 1, OneOf(Terms(x))[1] :>
                        QInv(QMul(OneOf(Terms(x))[2], R(OneOf(Terms(x))[1])))>>
      [] Len(x) = 3 /\ Cardinality(Terms(x)) = 2 ->
            InverseOfTwo(OneOf(Terms(x)), OneOf(Terms(x) \ {OneOf(Terms(x))}))

\* Rationals that |c| * r ** 0.5 lies between: the root is taken to two
\* decimals where r is small.
RootScale(r) == IF r < 200000 THEN 100 ELSE 1
RootBelow(r) == ISqrt(r * RootScale(r) * RootScale(r))
TermLower(t) ==
    IF t[1] = 1 THEN RAbs(t[2])
    ELSE QMul(RAbs(t[2]), Rat(RootBelow(t[1]), RootScale(t[1])))
TermUpper(t) ==
    IF t[1] = 1 THEN RAbs(t[2])
    ELSE QMul(RAbs(t[2]), Rat(RootBelow(t[1]) + 1, RootScale(t[1])))

RECURSIVE SumLower(_)
SumLower(terms) ==
    IF terms = {} THEN Zero
    ELSE QAdd(TermLower(OneOf(terms)), SumLower(terms \ {OneOf(terms)}))

RECURSIVE SumUpper(_)
SumUpper(terms) ==
    IF terms = {} THEN Zero
    ELSE QAdd(TermUpper(OneOf(terms)), SumUpper(terms \ {OneOf(terms)}))

\* The sign of the sum of the terms of pos less the sum of the sizes of the
\* terms of neg: by the bounds above where they tell, and for one term
\* against one by their squares.
SignOfParts(pos, neg) ==
    IF neg = {} THEN (IF pos = {} THEN 0 ELSE 1)
    ELSE IF pos = {} THEN -1
    ELSE IF QLt(SumUpper(neg), SumLower(pos)) THEN 1
    ELSE IF QLt(SumUpper(pos), SumLower(neg)) THEN -1
    ELSE CASE Cardinality(pos) = 1 /\ Cardinality(neg) = 1 ->
                IF QLt(TermSquare(OneOf(neg)), TermSquare(OneOf(pos))) THEN 1
                ELSE IF TermSquare(OneOf(neg)) = TermSquare(OneOf(pos)) THEN 0
                ELSE -1

\* A float beyond every bound of the model: a length divided by a speed of
\* the size of a rounding error
Huge == <<0, 1, 0 :> R(1)>>

\* A float of the size of a rounding error (1e-7 and less): a speed limit
\* that the squared rounding residue of a derivative left, along an axis
Small == <<0, 1, (-1) :> R(1)>>

NSign(x) ==
    IF Len(x) = 2 THEN Sign(x)
    ELSE IF Coefficient(x, 0) # Zero THEN Sign(Coefficient(x, 0))
    ELSE IF Terms(x) = {<<-1, Coefficient(x, -1)>>} THEN Sign(Coefficient(x, -1))
    ELSE SignOfParts({t \in Terms(x) : t[1] > 0 /\ t[2][1] > 0},
                     {t \in Terms(x) : t[1] > 0 /\ t[2][1] < 0})

NLt(x, y) == IF Len(x) = 2 /\ Len(y) = 2 THEN QLt(x, y) ELSE NSign(NSub(x, y)) < 0
NLe(x, y) == IF Len(x) = 2 /\ Len(y) = 2 THEN QLe(x, y) ELSE NSign(NSub(x, y)) <= 0

(***************************************************************************)
(* A time given to an evaluation: s + e * 1e-14, s rational, e a small     *)
(* integer.  Point times are plain rationals (e = 0).                      *)
(***************************************************************************)
Tol14 == 1          \* the tolerance 1e-14 of _validate_time, in units of 1e-14

T(s, e) == [s |-> s, e |-> e]
TLt(a, b) == RLt(a.s, b.s) \/ (a.s = b.s /\ a.e < b.e)
TLe(a, b) == RLt(a.s, b.s) \/ (a.s = b.s /\ a.e <= b.e)

(***************************************************************************)
(* Point: a frozen dataclass (position, velocity, time).                   *)
(***************************************************************************)
Point(position, velocity, time) ==
    [position |-> position, velocity |-> velocity, time |-> time]

Dim(point) == Len(point.position)

\* __post_init__: position and velocity must have the same dimension
PointRaises(position, velocity) == Len(position) # Len(velocity)

(***************************************************************************)
(* Segment                                                                 *)
(***************************************************************************)
\* A slip in c3: the sum of the velocities divided by delta_time, not by its
\* square.
calculate_coefficients_1d_c3(delta_time, pos_start, pos_end, vel_start, vel_end) ==
    IF RLt(Zero, delta_time)
    THEN <<pos_start, vel_start,
           Norm(Sub(Div(Mul(R(3), Sub(pos_end, pos_start)), Sq(delta_time)),
                    Div(Add(Mul(R(2), vel_start), vel_end), delta_time))),
           Norm(Add(Div(Mul(R(-2), Sub(pos_end, pos_start)), Cube(delta_time)),
                    Div(Add(vel_start, vel_end), delta_time)))>>
    ELSE <<pos_start, vel_start, Zero, Zero>>

\* A slip in c2: the end velocity is doubled, not the start velocity.
calculate_coefficients_1d_c2(delta_time, pos_start, pos_end, vel_start, vel_end) ==
    IF RLt(Zero, delta_time)
    THEN <<pos_start, vel_start,
           Norm(Sub(Div(Mul(R(3), Sub(pos_end, pos_start)), Sq(delta_time)),
                    Div(Add(vel_start, Mul(R(2), vel_end)), delta_time))),
           Norm(Add(Div(Mul(R(-2), Sub(pos_end, pos_start)), Cube(delta_time)),
                    Div(Add(vel_start, vel_end), Sq(delta_time))))>>
    ELSE <<pos_start, vel_start, Zero, Zero>>

\* Segment._calculate_coefficients_1d: c0 = pos_start, c1 = vel_start, and for
\* delta_time > 0
\*   c2 = 3 * delta_pos / delta_time**2 - (2 * vel_start + vel_end) / delta_time
\*   c3 = -2 * delta_pos / delta_time**3 + (vel_start + vel_end) / delta_time**2
\* with delta_pos = pos_end - pos_start; c2 = c3 = 0 otherwise.
calculate_coefficients_1d(delta_time, pos_start, pos_end, vel_start, vel_end) ==
    IF RLt(Zero, delta_time)
    THEN <<pos_start, vel_start,
           Norm(Sub(Div(Mul(R(3), Sub(pos_end, pos_start)), Sq(delta_time)),
                    Div(Add(Mul(R(2), vel_start), vel_end), delta_time))),
           Norm(Add(Div(Mul(R(-2), Sub(pos_end, pos_start)), Cube(delta_time)),
                    Div(Add(vel_start, vel_end), Sq(delta_time))))>>
    ELSE <<pos_start, vel_start, Zero, Zero>>

\* A Segment that checks the dimensions and not the order of the times.
SegmentRaisesNoOrder(start_point, end_point) ==
    Dim(start_point) # Dim(end_point)

\* A Segment that asks for delta_time > 0.
SegmentRaisesEqualTime(start_point, end_point) ==
    \/ Dim(start_point) # Dim(end_point)
    \/ ~NLt(start_point.time, end_point.time)

\* Segment.__init__ and _calculate_coefficients raise an AssertionError when
\* the dimensions differ or the end point is earlier than the start point.
SegmentRaises(start_point, end_point) ==
    \/ Dim(start_point) # Dim(end_point)
    \/ ~NLe(start_point.time, end_point.time)

\* A Segment is held as its two points.  Its coefficients are a function of
\* the two and are worked out where they are read; that is possible where
\* the times and velocities of the points are rational.
Segment(start_point, end_point) ==
    [start_point |-> start_point, end_point |-> end_point]

\* Segment._calculate_coefficients: the coefficients of axis i, and below
\* those of every axis
axis_coefficients(segment, i) ==
    calculate_coefficients_1d(
        Rational(NSub(segment.end_point.time, segment.start_point.time)),
        segment.start_point.position[i], segment.end_point.position[i],
        Rational(segment.start_point.velocity[i]),
        Rational(segment.end_point.velocity[i]))

calculate_coefficients(segment) ==
    List([i \in 1 .. Dim(segment.start_point) |-> axis_coefficients(segment, i)])

\* A range check with no upper end.
Segment_validate_time_open(segment, time) ==
    TLe(T(segment.start_point.time, 0), time)

\* Segment._validate_time: time_min <= time <= time_max + 1e-14
Segment_validate_time(segment, time) ==
    /\ TLe(T(segment.start_point.time, 0), time)
    /\ TLe(time, T(segment.end_point.time, Tol14))

\* The polynomials are evaluated at the rational part of delta_time; an
\* offset of e * 1e-14 moves the value by a term of order 1e-14.
DeltaTime(segment, time) == RSub(time.s, segment.start_point.time)

\* c0 + c1 * dt + c2 * dt**2 + c3 * dt**3 and its two derivatives
position_polynomial(c, dt) ==
    Norm(Add(Add(c[1], Mul(c[2], dt)), Add(Mul(c[3], Sq(dt)), Mul(c[4], Cube(dt)))))

velocity_polynomial(c, dt) ==
    Norm(Add(c[2], Add(Mul(Mul(R(2), c[3]), dt), Mul(Mul(R(3), c[4]), Sq(dt)))))

acceleration_polynomial(c, dt) ==
    Norm(Add(Mul(R(2), c[3]), Mul(Mul(R(6), c[4]), dt)))

SegmentPositionValue(segment, time) ==
    List([i \in 1 .. Dim(segment.start_point) |->
        position_polynomial(axis_coefficients(segment, i), DeltaTime(segment, time))])

SegmentVelocityValue(segment, time) ==
    List([i \in 1 .. Dim(segment.start_point) |->
        velocity_polynomial(axis_coefficients(segment, i), DeltaTime(segment, time))])

SegmentAccelerationValue(segment, time) ==
    List([i \in 1 .. Dim(segment.start_point) |->
        acceleration_polynomial(axis_coefficients(segment, i), DeltaTime(segment, time))])

SegmentValue(f, segment, time) ==
    CASE f = "position" -> SegmentPositionValue(segment, time)
      [] f = "velocity" -> SegmentVelocityValue(segment, time)
      [] f = "acceleration" -> SegmentAccelerationValue(segment, time)

\* Segment.position / velocity / acceleration: validate, then evaluate
SegmentEval(f, segment, time) ==
    IF Segment_validate_time(segment, time)
    THEN [status |-> "returned", value |-> SegmentValue(f, segment, time)]
    ELSE [status |-> "AssertionError", value |-> <<>>]

(***************************************************************************)
(* Sequence                                                                *)
(***************************************************************************)
\* list[index] of the source for a 0-based index that may be negative
PyItemExists(list, index) == -Len(list) <= index /\ index < Len(list)
PyItemPlace(list, index) == IF index < 0 THEN index + Len(list) + 1 ELSE index + 1

\* Sequence._validate_time
Sequence_validate_time(pts, time) ==
    /\ Len(pts) > 0
    /\ TLe(T(pts[1].time, 0), time)
    /\ TLe(time, T(pts[Len(pts)].time, Tol14))

\* The 0-based index computed by Sequence._get_segment_at_time
SegmentIndexAtTime(pts, segs, time) ==
    IF TLt(time, T(pts[Len(pts)].time, 0))
    THEN LET first == CHOOSE i \in 1 .. Len(pts) :
                        /\ TLt(time, T(pts[i].time, 0))
                        /\ \A j \in 1 .. i - 1 : ~TLt(time, T(pts[j].time, 0))
         IN  (first - 1) - 1
    ELSE Len(segs) - 1

\* Sequence._get_segment_at_time: the place of the segment in segs, or the
\* exception raised
get_segment_at_time(pts, segs, time) ==
    IF ~Sequence_validate_time(pts, time)
    THEN [status |-> "AssertionError", index |-> 0]
    ELSE LET index == SegmentIndexAtTime(pts, segs, time)
         IN  IF PyItemExists(segs, index)
             THEN [status |-> "returned", index |-> PyItemPlace(segs, index)]
             ELSE [status |-> "IndexError", index |-> 0]

\* Sequence.position / velocity / acceleration
SequenceEval(f, pts, segs, time) ==
    LET found == get_segment_at_time(pts, segs, time)
    IN  IF found.status # "returned"
        THEN [status |-> found.status, index |-> 0, value |-> <<>>]
        ELSE LET res == SegmentEval(f, segs[found.index], time)
             IN  [status |-> res.status, index |-> found.index, value |-> res.value]

(***************************************************************************)
(* Linear solves.  scipy.linalg.solve_banded is followed in exact          *)
(* arithmetic: the solution of the banded system, or LinAlgError when the  *)
(* matrix is singular.                                                     *)
(***************************************************************************)
None == <<>>

Solved(x) == [status |-> "returned", value |-> x]
Failed(why) == [status |-> why, value |-> <<>>]

\* One step of the elimination of a tridiagonal system with partial pivoting
\* (LAPACK gtsv, which solve_banded calls for one sub- and one superdiagonal).
\* st = [dl, d, du, b, info]; dl[i] is overwritten by the second superdiagonal
\* when rows i and i + 1 are interchanged.
gtsv_step(i, st) ==
    LET n == Len(st.d)
        dl == st.dl
        d == st.d
        du == st.du
        b == st.b
    IN  IF RLe(RAbs(dl[i]), RAbs(d[i]))
        THEN IF d[i] = Zero
             THEN [st EXCEPT !.info = i]
             ELSE LET fact == RDiv(dl[i], d[i])
                  IN  [st EXCEPT
                         !.d = [d EXCEPT ![i + 1] = RSub(d[i + 1], RMul(fact, du[i]))],
                         !.b = [b EXCEPT ![i + 1] = RSub(b[i + 1], RMul(fact, b[i]))],
                         !.dl = [dl EXCEPT ![i] = Zero]]
        ELSE LET fact == RDiv(d[i], dl[i])
                 temp == d[i + 1]
                 du_i1 == IF i <= n - 2 THEN du[i + 1] ELSE Zero
             IN  [st EXCEPT
                    !.d = [d EXCEPT ![i] = dl[i],
                                    ![i + 1] = RSub(du[i], RMul(fact, temp))],
                    !.dl = [dl EXCEPT ![i] = du_i1],
                    !.du = IF i <= n - 2
                           THEN [du EXCEPT ![i] = temp,
                                           ![i + 1] = RMul(R(-1), RMul(fact, du_i1))]
                           ELSE [du EXCEPT ![i] = temp],
                    !.b = [b EXCEPT ![i] = b[i + 1],
                                    ![i + 1] = RSub(b[i], RMul(fact, b[i + 1]))]]

RECURSIVE gtsv_eliminate(_, _)
gtsv_eliminate(i, st) ==
    IF i > Len(st.d) - 1 \/ st.info # 0
    THEN st
    ELSE gtsv_eliminate(i + 1, gtsv_step(i, st))

\* Back substitution for row i; as in gtsv, the solution overwrites b.
gtsv_back_step(i, st) ==
    LET n == Len(st.d)
        b == st.b
        right == IF i = n THEN Zero
                 ELSE IF i = n - 1 THEN RMul(st.du[i], b[i + 1])
                 ELSE RAdd(RMul(st.du[i], b[i + 1]), RMul(st.dl[i], b[i + 2]))
    IN  [st EXCEPT !.b = [b EXCEPT ![i] = RDiv(RSub(b[i], right), st.d[i])]]

RECURSIVE gtsv_back(_, _)
gtsv_back(i, st) ==
    IF i = 0 \/ st.info # 0
    THEN st
    ELSE gtsv_back(i - 1, gtsv_back_step(i, st))

\* solve_banded((1, 1), ab, b): sub is ab[2] without its last entry, diag is
\* ab[1], super is ab[0] without its first entry.
gtsv_solution(st) ==
    IF st.info # 0 \/ st.d[Len(st.d)] = Zero
    THEN Failed("LinAlgError")
    ELSE Solved(gtsv_back(Len(st.d), st).b)

solve_banded_1_1(sub, diag, super, rhs) ==
    gtsv_solution(gtsv_eliminate(1, [dl |-> sub, d |-> diag, du |-> super,
                                     b |-> rhs, info |-> 0]))

\* Forward substitution: x holds x[1 .. i-1].
RECURSIVE forward_substitute(_, _, _, _, _)
forward_substitute(i, sub, diag, rhs, x) ==
    IF i > Len(diag)
    THEN x
    ELSE LET left == IF i = 1 THEN Zero ELSE RMul(sub[i - 1], x[i - 1])
         IN  forward_substitute(i + 1, sub, diag, rhs,
                                Append(x, RDiv(RSub(rhs[i], left), diag[i])))

\* A substitution that takes a zero pivot for 1 instead of giving up.
solve_banded_1_0_zero_pivot(sub, diag, rhs) ==
    Solved(forward_substitute(
               1, sub, List([i \in 1 .. Len(diag) |-> IF diag[i] = Zero THEN R(1) ELSE diag[i]]),
               rhs, <<>>))

\* solve_banded((1, 0), ab, b): diag is ab[0], sub is ab[1] without its last
\* entry; the matrix is lower bidiagonal.
solve_banded_1_0(sub, diag, rhs) ==
    IF \E i \in 1 .. Len(diag) : diag[i] = Zero
    THEN Failed("LinAlgError")
    ELSE Solved(forward_substitute(1, sub, diag, rhs, <<>>))

(***************************************************************************)
(* generate_velocities_continuous_acceleration                             *)
(***************************************************************************)
\* delta_time and delta_pos of segment_index k (0-based, as in the source)
DeltaOf(list, k) == Sub(list[k + 2], list[k + 1])

\* A[r, c] as the loop of the source fills it (r, c 0-based)
VelocityA(time_seq, r, c) ==
    LET num_segments == Len(time_seq) - 1
        segment_index == (r - 1) \div 3
        delta_time == DeltaOf(time_seq, segment_index)
        col_start == segment_index * 3
        off == c - col_start
    IN  IF r = 0
        THEN IF c = 0 THEN R(1) ELSE Zero
        ELSE CASE (r - 1) % 3 = 0 ->
                    \* position equation for the segment
                    (CASE off = 0 -> Norm(delta_time)
                       [] off = 1 -> Norm(Sq(delta_time))
                       [] off = 2 -> Norm(Cube(delta_time))
                       [] OTHER -> Zero)
               [] (r - 1) % 3 = 1 /\ segment_index < num_segments - 1 ->
                    (CASE off = 1 -> Norm(delta_time)
                       [] off = 2 -> Norm(Mul(R(2), Sq(delta_time)))
                       [] off = 3 -> R(-1)
                       [] OTHER -> Zero)
               [] (r - 1) % 3 = 1 /\ segment_index = num_segments - 1 ->
                    \* final segment
                    (CASE off = 1 -> Norm(delta_time)
                       [] off = 2 -> Norm(Mul(R(2), Sq(delta_time)))
                       [] OTHER -> Zero)
               [] OTHER ->
                    (CASE off = 2 -> Norm(delta_time)
                       [] off = 3 -> Norm(Div(R(1), delta_time))
                       [] off = 4 -> R(-1)
                       [] OTHER -> Zero)

\* A slip in the acceleration equation: delta_pos / delta_time.
VelocityB_accel(position_seq, time_seq, vel_start, vel_end, r) ==
    LET num_segments == Len(time_seq) - 1
        segment_index == (r - 1) \div 3
        delta_time == DeltaOf(time_seq, segment_index)
        delta_pos == DeltaOf(position_seq, segment_index)
    IN  IF r = 0
        THEN vel_start
        ELSE CASE (r - 1) % 3 = 0 -> Norm(delta_pos)
               [] (r - 1) % 3 = 1 /\ segment_index < num_segments - 1 ->
                    Norm(Div(Mul(R(-1), delta_pos), delta_time))
               [] (r - 1) % 3 = 1 /\ segment_index = num_segments - 1 ->
                    Norm(Sub(vel_end, Div(delta_pos, delta_time)))
               [] OTHER -> Norm(Div(delta_pos, delta_time))

\* b[r] (r 0-based)
VelocityB(position_seq, time_seq, vel_start, vel_end, r) ==
    LET num_segments == Len(time_seq) - 1
        segment_index == (r - 1) \div 3
        delta_time == DeltaOf(time_seq, segment_index)
        delta_pos == DeltaOf(position_seq, segment_index)
    IN  IF r = 0
        THEN vel_start
        ELSE CASE (r - 1) % 3 = 0 -> Norm(delta_pos)
               [] (r - 1) % 3 = 1 /\ segment_index < num_segments - 1 ->
                    Norm(Div(Mul(R(-1), delta_pos), delta_time))
               [] (r - 1) % 3 = 1 /\ segment_index = num_segments - 1 ->
                    Norm(Sub(vel_end, Div(delta_pos, delta_time)))
               [] OTHER -> Norm(Div(delta_pos, Sq(delta_time)))

\* vel_sequence: vel_start, the first coefficient solved for every segment
\* but the first, vel_end.
velocities_from_coefficients(coefficients, num_segments, vel_start, vel_end) ==
    IF coefficients.status # "returned"
    THEN coefficients
    ELSE Solved(<<vel_start>>
                \o List([k \in 1 .. num_segments - 1 |-> coefficients.value[k * 3 + 1]])
                \o <<vel_end>>)

\* A slip in the final segment: vel_start where vel_end belongs.
generate_velocities_continuous_acceleration_ends(position_seq, time_seq, vel_start, vel_end) ==
    LET num_segments == Len(time_seq) - 1
        size == num_segments * 3
    IN  IF num_segments < 0 THEN Failed("ValueError")
        ELSE IF num_segments = 0 THEN Failed("IndexError")
        ELSE IF \E k \in 0 .. num_segments - 1 : Norm(DeltaOf(time_seq, k)) = Zero
        THEN Failed("ZeroDivisionError")
        ELSE velocities_from_coefficients(
                 solve_banded_1_1(
                     List([i \in 1 .. size - 1 |-> VelocityA(time_seq, i, i - 1)]),
                     List([i \in 1 .. size |-> VelocityA(time_seq, i - 1, i - 1)]),
                     List([i \in 1 .. size - 1 |-> VelocityA(time_seq, i - 1, i)]),
                     List([i \in 1 .. size |->
                         VelocityB(position_seq, time_seq, vel_start, vel_end, i - 1)])),
                 num_segments, vel_start, vel_start)

\* The velocities at the points of time_seq: vel_start, the solved start
\* velocity of every segment but the first, vel_end.
generate_velocities_continuous_acceleration(position_seq, time_seq, vel_start, vel_end) ==
    LET num_segments == Len(time_seq) - 1
        size == num_segments * 3
    IN  IF num_segments < 0 THEN Failed("ValueError")
        ELSE IF num_segments = 0 THEN Failed("IndexError")
        ELSE IF \E k \in 0 .. num_segments - 1 : Norm(DeltaOf(time_seq, k)) = Zero
        THEN Failed("ZeroDivisionError")
        ELSE velocities_from_coefficients(
                 solve_banded_1_1(
                     List([i \in 1 .. size - 1 |-> VelocityA(time_seq, i, i - 1)]),
                     List([i \in 1 .. size |-> VelocityA(time_seq, i - 1, i - 1)]),
                     List([i \in 1 .. size - 1 |-> VelocityA(time_seq, i - 1, i)]),
                     List([i \in 1 .. size |->
                         VelocityB(position_seq, time_seq, vel_start, vel_end, i - 1)])),
                 num_segments, vel_start, vel_end)

(***************************************************************************)
(* generate_positions_continuous_acceleration                              *)
(***************************************************************************)
\* A[r, c] as the loop of the source fills it (r, c 0-based)
PositionA(time_seq, r, c) ==
    LET segment_index == IF r % 2 = 1 THEN (r - 1) \div 2 ELSE (r - 2) \div 2
        delta_time == DeltaOf(time_seq, segment_index)
        off == c - segment_index * 2
    IN  IF r = 0
        THEN IF c = 0 THEN R(1) ELSE Zero
        ELSE IF r % 2 = 1
        THEN CASE off = 0 -> Norm(Mul(R(2), delta_time))
               [] off = 1 -> Norm(Mul(R(3), Sq(delta_time)))
               [] OTHER -> Zero
        ELSE CASE off = 1 -> Norm(Div(Mul(R(3), delta_time), R(2)))
               [] off = 2 -> R(-1)
               [] OTHER -> Zero

\* b[r] (r 0-based)
PositionB(velocity_seq, time_seq, r) ==
    LET segment_index == IF r % 2 = 1 THEN (r - 1) \div 2 ELSE (r - 2) \div 2
        delta_time == DeltaOf(time_seq, segment_index)
        delta_vel == DeltaOf(velocity_seq, segment_index)
    IN  IF r = 0 THEN Zero
        ELSE IF r % 2 = 1 THEN Norm(delta_vel)
        ELSE Norm(Div(Mul(R(-1), delta_vel), Mul(R(2), delta_time)))

calculate_delta_position(c1, c2, c3, delta_time) ==
    RAdd(RMul(c1, delta_time),
         RAdd(RMul(c2, Norm(Sq(delta_time))), RMul(c3, Norm(Cube(delta_time)))))

\* The loop that accumulates the positions, then the trailing pos_end.
RECURSIVE positions_loop(_, _, _, _, _)
positions_loop(pos_sequence, velocity_seq, time_seq, coefficients, pos_end) ==
    LET segment_index == Len(pos_sequence) - 1
    IN  IF Len(pos_sequence) > Len(time_seq) - 1
        THEN Append(pos_sequence, pos_end)
        ELSE positions_loop(
                 Append(pos_sequence,
                        RAdd(pos_sequence[Len(pos_sequence)],
                                 calculate_delta_position(
                                     velocity_seq[segment_index + 1],
                                     coefficients[segment_index * 2 + 1],
                                     coefficients[segment_index * 2 + 2],
                                     Norm(DeltaOf(time_seq, segment_index))))),
                 velocity_seq, time_seq, coefficients, pos_end)

\* What the matrix loop raises at segment_index k, "" when it raises nothing:
\* the difference of the velocities comes first, the division by delta_time
\* only for a middle segment.
PositionLoopRaises(velocity_seq, time_seq, k) ==
    IF velocity_seq[k + 1] = None \/ velocity_seq[k + 2] = None
    THEN "TypeError"
    ELSE IF k < Len(time_seq) - 2 /\ Norm(DeltaOf(time_seq, k)) = Zero
    THEN "ZeroDivisionError"
    ELSE ""

\* "Generate positions", once the coefficients are solved
positions_from_coefficients(coefficients, velocity_seq, time_seq, pos_start, pos_end) ==
    IF coefficients.status # "returned"
    THEN coefficients
    ELSE Solved(positions_loop(<<pos_start>>, velocity_seq, time_seq,
                               coefficients.value, pos_end))

generate_positions_continuous_acceleration(velocity_seq, time_seq, pos_start, pos_end) ==
    LET num_segments == Len(time_seq) - 1
        size == num_segments * 2
        raising == {k \in 0 .. num_segments - 1 :
                        PositionLoopRaises(velocity_seq, time_seq, k) # ""}
    IN  IF num_segments < 0 THEN Failed("ValueError")
        ELSE IF num_segments = 0 THEN Failed("IndexError")
        ELSE IF raising # {}
        THEN Failed(PositionLoopRaises(velocity_seq, time_seq,
                        CHOOSE k \in raising : \A j \in raising : k <= j))
        ELSE positions_from_coefficients(
                 solve_banded_1_0(
                     List([i \in 1 .. size - 1 |-> PositionA(time_seq, i, i - 1)]),
                     List([i \in 1 .. size |-> PositionA(time_seq, i - 1, i - 1)]),
                     List([i \in 1 .. size |-> PositionB(velocity_seq, time_seq, i - 1)])),
                 velocity_seq, time_seq, pos_start, pos_end)

(***************************************************************************)
(* Inputs of the append / evaluate specification.                          *)
(***************************************************************************)
PositionValues == {0, 1}
VelocityValues == {0, 1}
Times == 0 .. MaxTime

PointInputs ==
    {Point(<<R(x)>>, <<R(v)>>, R(t)) :
        x \in PositionValues, v \in VelocityValues, t \in Times}
    \cup
    {Point(<<R(0), R(1)>>, <<R(1), R(0)>>, R(t)) : t \in Times}

\* grid times, and grid times plus 1e-14 and plus 2e-14
QueryTimes == {T(R(s), e) : s \in Times, e \in {0, 1, 2}}

Methods == {"position", "velocity", "acceleration"}

NoPoint == Point(<<>>, <<>>, Zero)
NoTime == T(Zero, 0)

Call(name, status, point, time, index, value) ==
    [name |-> name, status |-> status, point |-> point, time |-> time,
     index |-> index, value |-> value]

NoCall == Call("none", "returned", NoPoint, NoTime, 0, <<>>)

\* No file is in play.
NoCsv == [header |-> <<>>, rows |-> <<>>]

\* rounding[u] = [dx_du, d2x_dl2] tells how the floats round at the
\* calculation point u, for every u that lies where a path turns back (a
\* point of the subdivision, or a root inserted there), where the
\* derivative of the path is 0.  dx_du[d] is the sign of the float that the
\* derivative of axis d comes to at u (0: the float is 0.0; when that is so
\* in every axis the source takes the path to stand still there), and
\* d2x_dl2 tells whether two equal terms of d2x_dl2 cancel at u or leave a
\* large value.  The floats of one point tell nothing about those of
\* another, be it at the same place of the path: a root that was inserted
\* before a point of the subdivision is a float of its own.  An axis that
\* stays where it is has the derivative 0.0.
Moves(list) == \E i \in 1 .. Len(list) - 1 : list[i] # list[i + 1]

\* What the floats can come to at one such point
SiteRoundings(position_seqs) ==
    {[dx_du |-> List(signs), d2x_dl2 |-> cancelled] :
        signs \in {f \in [1 .. Len(position_seqs) -> {-1, 0, 1}] :
                      \A d \in 1 .. Len(position_seqs) :
                          ~Moves(position_seqs[d]) => f[d] = 0},
        cancelled \in {"cancels", "large"}}
    \ {[dx_du |-> List([d \in 1 .. Len(position_seqs) |-> 0]), d2x_dl2 |-> "large"]}

\* The rounding of a path on which no float is asked for where it turns back.
Unrounded == [u \in {} |-> [dx_du |-> <<>>, d2x_dl2 |-> "cancels"]]

(***************************************************************************)
(* Operations on the Sequence.                                             *)
(***************************************************************************)
Returned(pts, segs) == [raised |-> FALSE, points |-> pts, segments |-> segs]
Raised(pts, segs) == [raised |-> TRUE, points |-> pts, segments |-> segs]

\* append_point storing the point before it builds the Segment.
append_point_first(pts, segs, point) ==
    IF Len(pts) > 0 /\ SegmentRaises(pts[Len(pts)], point)
    THEN Raised(Append(pts, point), segs)
    ELSE Returned(Append(pts, point),
                  IF Len(pts) > 0
                  THEN Append(segs, Segment(pts[Len(pts)], point))
                  ELSE segs)

\* append_point building the Segment from the first point of the Sequence.
append_point_from_start(pts, segs, point) ==
    IF Len(pts) > 0 /\ SegmentRaises(pts[Len(pts)], point)
    THEN Raised(pts, segs)
    ELSE Returned(Append(pts, point),
                  IF Len(pts) > 0
                  THEN Append(segs, Segment(pts[1], point))
                  ELSE segs)

\* Sequence.append_point on a Sequence holding pts and segs: the Segment is
\* built first, and when that raises nothing has been stored.
append_point(pts, segs, point) ==
    IF Len(pts) > 0 /\ SegmentRaises(pts[Len(pts)], point)
    THEN Raised(pts, segs)
    ELSE Returned(Append(pts, point),
                  IF Len(pts) > 0
                  THEN Append(segs, Segment(pts[Len(pts)], point))
                  ELSE segs)

AppendPoint(point) ==
    LET res == append_point(points, segments, point)
    IN  /\ Len(res.points) <= MaxPoints
        /\ points' = res.points
        /\ segments' = res.segments
        /\ call' = Call("append_point",
                        IF res.raised THEN "AssertionError" ELSE "returned",
                        point, NoTime, 0, <<>>)
        /\ UNCHANGED <<lists, files>>

SequenceCall(f, time) ==
    LET res == SequenceEval(f, points, segments, time)
    IN  /\ call' = Call(f, res.status, NoPoint, time, res.index, res.value)
        /\ UNCHANGED <<points, segments, lists, files>>

\* Sequence.position
Position(time) == SequenceCall("position", time)
\* Sequence.velocity
Velocity(time) == SequenceCall("velocity", time)
\* Sequence.acceleration
Acceleration(time) == SequenceCall("acceleration", time)

\* Segment.position / velocity / acceleration called on the Segment built last.
\* Every Segment of a Sequence was the last one when it was built, so every
\* Segment is reached.
SegmentCall(f, time) ==
    LET i == Len(segments)
        res == SegmentEval(f, segments[i], time)
    IN  /\ i > 0
        /\ call' = Call("Segment." \o f, res.status, NoPoint, time, i, res.value)
        /\ UNCHANGED <<points, segments, lists, files>>

\* Sequence(): no points, no segments; no lists are in play
Init ==
    /\ points = <<>>
    /\ segments = <<>>
    /\ call = NoCall
    /\ time_sequence = <<>>
    /\ position_sequences = <<>>
    /\ velocity_sequences = <<>>
    /\ velocity_input = <<>>
    /\ csv = NoCsv
    /\ rounding = Unrounded

Next ==
    \/ \E point \in PointInputs : AppendPoint(point)
    \/ \E time \in QueryTimes : Position(time)
    \/ \E time \in QueryTimes : Velocity(time)
    \/ \E time \in QueryTimes : Acceleration(time)
    \/ \E f \in Methods, time \in QueryTimes : SegmentCall(f, time)

Spec == Init /\ [][Next]_vars

\* Appends only: the Sequence as it is built.
NextAppend == \E point \in PointInputs : AppendPoint(point)

SpecAppend == Init /\ [][NextAppend]_vars

(***************************************************************************)
(* Segments built on their own: Segment(start_point, end_point).           *)
(***************************************************************************)
SegmentTimes == {R(0), R(1), Rat(3, 2), R(3)}

SegmentPoints ==
    {Point(<<R(x)>>, <<R(v)>>, t) :
        x \in {-1, 0, 2}, v \in {-2, 1}, t \in SegmentTimes}
    \cup
    {Point(<<R(0), R(2)>>, <<R(1), R(-1)>>, t) : t \in SegmentTimes}
    \cup
    {Point(<<R(1), R(-1)>>, <<R(0), R(3)>>, t) : t \in SegmentTimes}

\* What Segment(start_point, end_point) was given and what it built (None
\* when it raised).
SegmentBuilt(start_point, end_point, segment) ==
    [start_point |-> start_point, end_point |-> end_point, segment |-> segment]

\* Segment.__init__
NewSegment(start_point, end_point) ==
    /\ call' = IF SegmentRaises(start_point, end_point)
               THEN Call("Segment", "AssertionError", NoPoint, NoTime, 0,
                         SegmentBuilt(start_point, end_point, None))
               ELSE Call("Segment", "returned", NoPoint, NoTime, 0,
                         SegmentBuilt(start_point, end_point,
                                      Segment(start_point, end_point)))
    /\ UNCHANGED <<points, segments, lists, files>>

NextSegment ==
    \E start_point \in SegmentPoints, end_point \in SegmentPoints :
        NewSegment(start_point, end_point)

SpecSegment == Init /\ [][NextSegment]_vars

(***************************************************************************)
(* Sequence.generate_velocities and Sequence.generate_positions            *)
(***************************************************************************)
Generated(status, velocity_seqs, pts, segs) ==
    [status |-> status, velocity_sequences |-> velocity_seqs,
     points |-> pts, segments |-> segs]

\* "Append the points": one Point per entry of time_seq, with the first
\* sequence_dim axes of both arrays, appended in order until one append raises.
RECURSIVE append_points(_, _, _, _, _, _)
append_points(point_index, built, sequence_dim, time_seq, position_seqs, velocity_seqs) ==
    IF built.raised \/ point_index > Len(time_seq)
    THEN built
    ELSE append_points(
             point_index + 1,
             append_point(built.points, built.segments,
                          Point(List([i \in 1 .. sequence_dim |-> position_seqs[i][point_index]]),
                                List([i \in 1 .. sequence_dim |-> velocity_seqs[i][point_index]]),
                                time_seq[point_index])),
             sequence_dim, time_seq, position_seqs, velocity_seqs)

\* The list after velocity_sequences[dim][start : stop + 1] = generated (start
\* and stop 1-based here), or the list as it is when the solve raised.  solves
\* lists the calls of the solver made for the axis: the slice and the two
\* boundary velocities handed over.
gap_solved(generated, axis, start, stop) ==
    [status |-> generated.status,
     vel |-> IF generated.status # "returned"
             THEN axis.vel
             ELSE List([i \in 1 .. Len(axis.vel) |->
                      IF start <= i /\ i <= stop THEN generated.value[i - start + 1]
                      ELSE axis.vel[i]]),
     solves |-> Append(axis.solves,
                       [start |-> start, stop |-> stop,
                        vel_start |-> axis.vel[start], vel_end |-> axis.vel[stop]])]

\* The loop over the interior points of one axis; point_index and
\* gen_start_index are the 0-based indices of the source, -1 stands for None.
\* A solve that raises ends the loop and leaves the list as it is.
RECURSIVE gaps_loop(_, _, _, _, _)
gaps_loop(point_index, gen_start_index, axis, position_seq, time_seq) ==
    LET vel == axis.vel
        start == IF gen_start_index = -1 /\ vel[point_index + 1] = None
                 THEN point_index - 1
                 ELSE gen_start_index
    IN  IF axis.status # "returned" \/ point_index > Len(time_seq) - 2
        THEN axis
        ELSE IF start # -1 /\ vel[point_index + 2] # None
        THEN gaps_loop(
                 point_index + 1, -1,
                 gap_solved(
                     generate_velocities_continuous_acceleration(
                         SubSeq(position_seq, start + 1, point_index + 2),
                         SubSeq(time_seq, start + 1, point_index + 2),
                         vel[start + 1],
                         vel[point_index + 2]),
                     axis, start + 1, point_index + 2),
                 position_seq, time_seq)
        ELSE gaps_loop(point_index + 1, start, axis, position_seq, time_seq)

\* An endpoint set to zero velocity whether it was given or not.
endpoint_at_rest_given_or_not(axis, endpoint_index) ==
    IF axis.status # "returned"
    THEN axis
    ELSE IF ~PyItemExists(axis.vel, endpoint_index)
    THEN [axis EXCEPT !.status = "IndexError"]
    ELSE [axis EXCEPT !.vel[PyItemPlace(axis.vel, endpoint_index)] = Zero]

\* One turn of "for endpoint_index in (0, sequence_length - 1)": the entry
\* of the list at endpoint_index is read, which raises IndexError when the
\* list has no such entry, and is set to 0 when it is None.  The index is
\* that of the source: -1, which sequence_length - 1 is for no times, is
\* the last entry of the list.  The list is written in place, so the first
\* write stays when the second read raises.
endpoint_at_rest(axis, endpoint_index) ==
    IF axis.status # "returned"
    THEN axis
    ELSE IF ~PyItemExists(axis.vel, endpoint_index)
    THEN [axis EXCEPT !.status = "IndexError"]
    ELSE IF axis.vel[PyItemPlace(axis.vel, endpoint_index)] = None
    THEN [axis EXCEPT !.vel[PyItemPlace(axis.vel, endpoint_index)] = Zero]
    ELSE axis

\* A version that sets the velocity of the first and of the last point to
\* zero whether it was given or not.
generate_some_velocities_axis_ends_at_rest(vel, position_seq, time_seq) ==
    gaps_loop(1, -1,
              endpoint_at_rest_given_or_not(
                  endpoint_at_rest_given_or_not(
                      [status |-> "returned", vel |-> vel, solves |-> <<>>], 0),
                  Len(time_seq) - 1),
              position_seq, time_seq)

\* One axis of "Generate some velocities": zero velocity at the endpoints
\* that have none, then the gaps.
generate_some_velocities_axis(vel, position_seq, time_seq) ==
    gaps_loop(1, -1,
              endpoint_at_rest(
                  endpoint_at_rest(
                      [status |-> "returned", vel |-> vel, solves |-> <<>>], 0),
                  Len(time_seq) - 1),
              position_seq, time_seq)

\* The velocity lists once the axis dim has been worked on
axis_written(axis, dim, some) ==
    [status |-> axis.status,
     velocity_sequences |-> [some.velocity_sequences EXCEPT ![dim] = axis.vel],
     solves |-> Append(some.solves, axis.solves)]

\* The loop over the axes: the lists of velocity_seqs are changed in place,
\* so what was written before a failure stays written.
RECURSIVE generate_some_velocities(_, _, _, _)
generate_some_velocities(dim, some, position_seqs, time_seq) ==
    IF some.status # "returned" \/ dim > Len(position_seqs)
    THEN some
    ELSE IF dim > Len(some.velocity_sequences)
    THEN [status |-> "IndexError", velocity_sequences |-> some.velocity_sequences,
          solves |-> some.solves]
    ELSE generate_some_velocities(
             dim + 1,
             axis_written(
                 generate_some_velocities_axis(
                     some.velocity_sequences[dim], position_seqs[dim], time_seq),
                 dim, some),
             position_seqs, time_seq)

\* The lists solved for every axis, or what the first failing axis raised.
all_solved(solved) ==
    IF \E dim \in 1 .. Len(solved) : solved[dim].status # "returned"
    THEN [status |-> solved[CHOOSE dim \in 1 .. Len(solved) :
                                /\ solved[dim].status # "returned"
                                /\ \A other \in 1 .. dim - 1 :
                                       solved[other].status = "returned"].status,
          lists |-> None]
    ELSE [status |-> "returned",
          lists |-> List([dim \in 1 .. Len(solved) |-> solved[dim].value])]

all_velocities(solved) ==
    [status |-> solved.status, velocity_sequences |-> solved.lists]

\* "Generate all velocities": a new list per axis.
generate_all_velocities(position_seqs, time_seq) ==
    all_velocities(
        all_solved(List([dim \in 1 .. Len(position_seqs) |->
                       generate_velocities_continuous_acceleration(
                           position_seqs[dim], time_seq, Zero, Zero)])))

\* The Sequence built from the points, or the AssertionError of the append
\* that failed.
sequence_built(built, left) ==
    IF built.raised
    THEN Generated("AssertionError", left, <<>>, <<>>)
    ELSE Generated("returned", left, built.points, built.segments)

\* "Append the points" of generate_velocities, given the velocities generated;
\* `passed` is the velocity_sequences argument.
velocities_appended(velocities, passed, time_seq, position_seqs) ==
    IF velocities.status # "returned"
    THEN Generated(velocities.status,
                   IF passed = None THEN None ELSE velocities.velocity_sequences,
                   <<>>, <<>>)
    ELSE sequence_built(
             append_points(1, Returned(<<>>, <<>>), Len(position_seqs),
                           time_seq, position_seqs, velocities.velocity_sequences),
             IF passed = None THEN None ELSE velocities.velocity_sequences)

\* generate_velocities(time_sequence, position_sequences, velocity_sequences);
\* the result carries the velocity lists passed as the call leaves them.
generate_velocities(time_seq, position_seqs, velocity_seqs) ==
    velocities_appended(
        IF velocity_seqs = None
        THEN generate_all_velocities(position_seqs, time_seq)
        ELSE generate_some_velocities(
                 1, [status |-> "returned", velocity_sequences |-> velocity_seqs,
                     solves |-> <<>>],
                 position_seqs, time_seq),
        velocity_seqs, time_seq, position_seqs)

\* An append that writes a zero velocity into the last point.
positions_appended_end_at_rest(positions, time_seq, velocity_seqs) ==
    IF positions.status # "returned"
    THEN Generated(positions.status, velocity_seqs, <<>>, <<>>)
    ELSE sequence_built(
             append_points(1, Returned(<<>>, <<>>), Len(velocity_seqs),
                           time_seq, positions.lists,
                           List([d \in 1 .. Len(velocity_seqs) |->
                               List([i \in 1 .. Len(velocity_seqs[d]) |->
                                   IF i = Len(time_seq) THEN Zero
                                   ELSE velocity_seqs[d][i]])])),
             velocity_seqs)

\* "Append the points" of generate_positions, given the positions generated
positions_appended(positions, time_seq, velocity_seqs) ==
    IF positions.status # "returned"
    THEN Generated(positions.status, velocity_seqs, <<>>, <<>>)
    ELSE sequence_built(
             append_points(1, Returned(<<>>, <<>>), Len(velocity_seqs),
                           time_seq, positions.lists, velocity_seqs),
             velocity_seqs)

\* generate_positions(time_sequence, velocity_sequences)
generate_positions(time_seq, velocity_seqs) ==
    positions_appended(
        all_solved(List([dim \in 1 .. Len(velocity_seqs) |->
                       generate_positions_continuous_acceleration(
                           velocity_seqs[dim], time_seq, Zero, Zero)])),
        time_seq, velocity_seqs)

(***************************************************************************)
(* The generation calls on arrays the caller holds.                        *)
(***************************************************************************)
MaxGenPoints == 5

RECURSIVE SumTo(_, _)
SumTo(steps, i) == IF i = 0 THEN 0 ELSE steps[i] + SumTo(steps, i - 1)

\* Increasing times from 0, and three short lists with a repeated or a
\* decreasing time.
GenTimes ==
    {List([i \in 1 .. n |-> R(SumTo(steps, i - 1))]) :
        n \in 1 .. MaxGenPoints, steps \in [1 .. MaxGenPoints - 1 -> {1, 2}]}
    \cup {<<>>, <<R(0), R(1), R(1)>>, <<R(0), R(0), R(1)>>, <<R(0), R(2), R(1)>>}

PositionProfile1(i) == ((i * (i + 1)) \div 2) % 4
PositionProfile2(i) == (2 * i) % 3
VelocityProfile(i) == (i % 3) - 1

GenPositions(n) ==
    {<<List([i \in 1 .. n |-> R(PositionProfile1(i))])>>,
     <<List([i \in 1 .. n |-> R(PositionProfile2(i))])>>,
     <<List([i \in 1 .. n |-> R(PositionProfile1(i))]), List([i \in 1 .. n |-> R(PositionProfile2(i))])>>}

\* The velocity lists that specify the points of `given`, one list per axis;
\* a second axis specifies the mirrored points.
GenVelocityList(n, given) ==
    List([i \in 1 .. n |-> IF i \in given THEN R(VelocityProfile(i)) ELSE None])

GenVelocities(n, sequence_dim) ==
    {List([dim \in 1 .. sequence_dim |->
         IF dim = 1 THEN GenVelocityList(n, given)
         ELSE GenVelocityList(n, {i \in 1 .. n : n + 1 - i \in given})]) :
        given \in SUBSET (1 .. n)}

InitGen ==
    /\ points = <<>>
    /\ segments = <<>>
    /\ call = NoCall
    /\ velocity_input = <<>>
    /\ csv = NoCsv
    /\ rounding = Unrounded
    /\ time_sequence \in GenTimes
    /\ position_sequences \in GenPositions(Len(time_sequence))
    /\ velocity_sequences \in GenVelocities(Len(time_sequence), Len(position_sequences))

\* What a generation call leaves: the Sequence it returned (none when it
\* raised), the velocity lists as the caller now sees them and as they were
\* passed.
GenerationCall(name, passed, res) ==
    /\ points' = res.points
    /\ segments' = res.segments
    /\ call' = Call(name, res.status, NoPoint, NoTime, 0, <<>>)
    /\ velocity_input' = passed
    /\ velocity_sequences' = IF passed = None THEN velocity_sequences
                             ELSE res.velocity_sequences
    /\ UNCHANGED <<time_sequence, position_sequences, files>>

\* generate_velocities(time_sequence, position_sequences, velocity_sequences)
GenerateVelocities ==
    GenerationCall("generate_velocities", velocity_sequences,
                   generate_velocities(time_sequence, position_sequences,
                                       velocity_sequences))

\* generate_velocities(time_sequence, position_sequences, None)
GenerateAllVelocities ==
    GenerationCall("generate_velocities", None,
                   generate_velocities(time_sequence, position_sequences, None))

\* generate_positions(time_sequence, velocity_sequences)
GeneratePositions ==
    GenerationCall("generate_positions", velocity_sequences,
                   generate_positions(time_sequence, velocity_sequences))

NextGen ==
    \/ GenerateVelocities
    \/ GenerateAllVelocities
    \/ GeneratePositions

SpecGen == InitGen /\ [][NextGen]_vars

(***************************************************************************)
(* The two solvers called on their own.                                    *)
(***************************************************************************)
\* The times of the generation calls, and lists with two equal consecutive
\* times in the only, the first, a middle and the last segment.
SolverTimes ==
    GenTimes \cup {<<R(0), R(0)>>, <<R(0), R(1), R(1), R(2)>>,
                   <<R(0), R(1), R(2), R(2)>>, <<R(0), R(0), R(1), R(2)>>}

\* vel_start, vel_end, pos_start, pos_end
SolverEnds == {R(0), R(1)}

InitSolver ==
    /\ points = <<>>
    /\ segments = <<>>
    /\ call = NoCall
    /\ velocity_input = <<>>
    /\ csv = NoCsv
    /\ rounding = Unrounded
    /\ time_sequence \in SolverTimes
    /\ position_sequences \in
           {<<List([i \in 1 .. Len(time_sequence) |-> R(PositionProfile1(i))])>>,
            <<List([i \in 1 .. Len(time_sequence) |-> R(PositionProfile2(i))])>>}
    /\ velocity_sequences =
           <<List([i \in 1 .. Len(time_sequence) |-> R(VelocityProfile(i))])>>

\* What a call of a solver leaves: the list it returned or what it raised.
SolverCall(name, start, end, res) ==
    /\ call' = Call(name, res.status, NoPoint, NoTime, 0,
                    [start |-> start, end |-> end, result |-> res.value])
    /\ UNCHANGED <<points, segments, lists, files>>

\* generate_velocities_continuous_acceleration(position_sequence,
\* time_sequence, vel_start, vel_end); one call per behaviour, the function
\* keeps nothing.
SolveVelocities(vel_start, vel_end) ==
    /\ call = NoCall
    /\ SolverCall("generate_velocities_continuous_acceleration", vel_start, vel_end,
                  generate_velocities_continuous_acceleration(
                      position_sequences[1], time_sequence, vel_start, vel_end))

\* generate_positions_continuous_acceleration(velocity_sequence,
\* time_sequence, pos_start, pos_end)
SolvePositions(pos_start, pos_end) ==
    /\ call = NoCall
    /\ SolverCall("generate_positions_continuous_acceleration", pos_start, pos_end,
                  generate_positions_continuous_acceleration(
                      velocity_sequences[1], time_sequence, pos_start, pos_end))

NextSolver ==
    \/ \E vel_start \in SolverEnds, vel_end \in SolverEnds :
           SolveVelocities(vel_start, vel_end)
    \/ \E pos_start \in SolverEnds, pos_end \in SolverEnds :
           SolvePositions(pos_start, pos_end)

SpecSolver == InitSolver /\ [][NextSolver]_vars

(***************************************************************************)
(* GeometricPath.  splprep(position_sequences, s=0) is followed for four   *)
(* keypoints: the parameters u are the normalised chord lengths, and the   *)
(* interpolating cubic spline, which then has no interior knot, is in each *)
(* axis the cubic polynomial through the four keypoints.  A polynomial is  *)
(* the tuple <<p0, p1, p2, p3>> of p0 + p1 u + p2 u^2 + p3 u^3.            *)
(***************************************************************************)
SplineDegree == 3   \* the degree k of the spline that splprep fits by default

SumOfSquares(vec) == QSum(List([d \in 1 .. Len(vec) |-> QSq(vec[d])]), Len(vec))

\* sum(val**2 for val in vec) ** 0.5, taken as (g / l) * (sum of the squares
\* of the whole numbers vec * l / g) ** 0.5, where l is the common denominator
\* of vec and g the common divisor of its numerators: the squares stay small.
\* The paths here lie on a line along an axis or along (3, 4), so the norm
\* of a vector along the path is rational.
RECURSIVE CommonDenominator(_, _)
CommonDenominator(vec, i) ==
    IF i = 0 THEN 1 ELSE LCM(vec[i][2], CommonDenominator(vec, i - 1))

RECURSIVE CommonDivisor(_, _, _)
CommonDivisor(vec, l, i) ==
    IF i = 0 THEN 0
    ELSE GCD(Abs(vec[i][1]) * (l \div vec[i][2]), CommonDivisor(vec, l, i - 1))

ScaledNorm(vec, l, g) ==
    IF g = 0 THEN Zero
    ELSE QMul(Rat(g, l),
              Rational(sqrt(QSum(List([d \in 1 .. Len(vec) |->
                                     QSq(R((vec[d][1] * (l \div vec[d][2])) \div g))]),
                                 Len(vec)))))

VectorNorm(vec) ==
    ScaledNorm(vec, CommonDenominator(vec, Len(vec)),
               CommonDivisor(vec, CommonDenominator(vec, Len(vec)), Len(vec)))

\* The distance from keypoint i to keypoint i + 1
ChordLength(position_seqs, i) ==
    VectorNorm(List([d \in 1 .. Len(position_seqs) |->
                   QSub(position_seqs[d][i + 1], position_seqs[d][i])]))

\* The cubic through (u[i], x[i]), i = 1 .. 4, with u[1] = 0, from its divided
\* differences.
CubicThrough(u, x) ==
    LET d1 == List([i \in 1 .. 3 |-> QDiv(QSub(x[i + 1], x[i]), QSub(u[i + 1], u[i]))])
        d2 == List([i \in 1 .. 2 |-> QDiv(QSub(d1[i + 1], d1[i]), QSub(u[i + 2], u[i]))])
        d3 == QDiv(QSub(d2[2], d2[1]), QSub(u[4], u[1]))
    IN  <<x[1],
          QAdd(QSub(d1[1], QMul(d2[1], u[2])), QMul(d3, QMul(u[2], u[3]))),
          QSub(d2[1], QMul(d3, QAdd(u[2], u[3]))),
          d3>>

PolyAt(p, u) == QAdd(p[1], QMul(u, QAdd(p[2], QMul(u, QAdd(p[3], QMul(u, p[4]))))))

\* The derivative of order n (1, 2 or 3) of the polynomial at u
PolyDerivativeAt(p, u, n) ==
    CASE n = 1 -> QAdd(p[2], QMul(u, QAdd(QMul(R(2), p[3]), QMul(u, QMul(R(3), p[4])))))
      [] n = 2 -> QAdd(QMul(R(2), p[3]), QMul(u, QMul(R(6), p[4])))
      [] n = 3 -> QMul(R(6), p[4])

\* The zeros of the first derivative of the polynomial; they are rational
\* on the paths here.
CriticalPoints(p) ==
    LET a == QMul(R(3), p[4])
        b == QMul(R(2), p[3])
        c == p[2]
        disc == QSub(QSq(b), QMul(R(4), QMul(a, c)))
    IN  IF a = Zero
        THEN IF b = Zero THEN {} ELSE {QDiv(QNeg(c), b)}
        ELSE IF QLt(disc, Zero) THEN {}
        ELSE {QDiv(QAdd(QNeg(b), Rational(sqrt(disc))), QMul(R(2), a)),
              QDiv(QSub(QNeg(b), Rational(sqrt(disc))), QMul(R(2), a))}

\* The increasing sequence of the members of a set of rationals
SortedRationals(S) ==
    CHOOSE f \in [1 .. Cardinality(S) -> S] :
        \A i \in 1 .. Cardinality(S), j \in 1 .. Cardinality(S) : i < j => QLt(f[i], f[j])

\* A parameter u is a rational, and <<n, d, -1>> is the float of a root that
\* newton or bisect returned for the zero n / d of a derivative: a float
\* within 2e-12 of the zero, taken to lie before it, a float of its own next
\* to that of a calculation point at n / d.  The path is evaluated at n / d.
Root(u) == <<u[1], u[2], -1>>
Place(u) == <<u[1], u[2]>>

\* a < b and a <= b for two such floats
FloatLt(a, b) == QLt(a, b) \/ (Place(a) = Place(b) /\ Len(a) > Len(b))
FloatLe(a, b) == ~FloatLt(b, a)

\* GeometricPath.position
PathPosition(geo_path, u) ==
    List([d \in 1 .. geo_path.dim |-> PolyAt(geo_path.tck[d], u)])

\* GeometricPath.dx_du
dx_du(geo_path, u, derivative_number) ==
    List([d \in 1 .. geo_path.dim |-> PolyDerivativeAt(geo_path.tck[d], u, derivative_number)])

\* GeometricPath.dl_du
dl_du(geo_path, u) == VectorNorm(dx_du(geo_path, u, 1))

\* Where the path turns back the derivative of every axis is 0, and the
\* float that splev returns at the calculation point u there is what the
\* rounding leaves: in axis d a residue of the sign rounding[u].dx_du[d] (0
\* for the float 0.0), and 0.0 in an axis that stays where it is and at a u
\* of which rounding tells nothing.  The residues of two axes are taken in
\* the proportion 3 : 4, which keeps the norm of the vector rational; the
\* vector below has the direction of the residue.
ResidueSize == <<3, 4>>

residue(geo_path, u) ==
    List([d \in 1 .. geo_path.dim |->
        IF u \in DOMAIN rounding
           /\ d \in DOMAIN rounding[u].dx_du
           /\ \E k \in 2 .. 4 : geo_path.tck[d][k] # Zero
        THEN R(rounding[u].dx_du[d] * ResidueSize[d])
        ELSE Zero])

\* dx_du as direction, d2l_du2 and d2x_dl2 meet it: the derivative, and
\* where that is 0 in every axis what the rounding leaves of it
dx_du_rounded(geo_path, u) ==
    IF dl_du(geo_path, u) = Zero THEN residue(geo_path, u) ELSE dx_du(geo_path, u, 1)

\* GeometricPath.direction
direction(geo_path, u) ==
    LET norm == VectorNorm(dx_du_rounded(geo_path, u))
    IN  List([d \in 1 .. geo_path.dim |->
            IF norm = Zero THEN Zero ELSE QDiv(dx_du_rounded(geo_path, u)[d], norm)])

\* GeometricPath.d2l_du2
d2l_du2(geo_path, u) ==
    LET first == dx_du_rounded(geo_path, u)
        second == dx_du(geo_path, u, 2)
    IN  IF VectorNorm(first) = Zero THEN Zero
        ELSE QDiv(QSum(List([d \in 1 .. geo_path.dim |->
                           QMul(R(2), QMul(first[d], second[d]))]), geo_path.dim),
                  QMul(R(2), VectorNorm(first)))

\* A value beyond every bound of the model, of either sign: what a division
\* by the square of a rounding residue leaves (of the size 2 ** 52 and more).
Unbounded == <<1, 0>>

\* GeometricPath.d2x_dl2.  With d2l_du2 = (dx_du . d2x_du2) / dl_du, the
\* source's d2x_du2 / dl_du**2 - dx_du * d2l_du2 / dl_du**3 is
\* (d2x_du2 - dx_du * (dx_du . d2x_du2) / dl_du**2) / dl_du**2, the form
\* evaluated here: its intermediate values stay within the integer range.
\* Where the float of dl_du is 0.0 the source returns zeros.  Where the path
\* turns back and the rounding leaves a residue of dx_du, the division is by
\* the square of the residue: the value is beyond every bound in an axis
\* whose numerator is not 0, and in an axis whose two terms are equal the
\* floats either cancel or differ in their last digits, which leaves a
\* large value as well (rounding[u].d2x_dl2).
d2x_dl2(geo_path, u) ==
    LET first == dx_du_rounded(geo_path, u)
        second == dx_du(geo_path, u, 2)
        squared == SumOfSquares(first)
        ratio == QDiv(QSum(List([d \in 1 .. geo_path.dim |-> QMul(first[d], second[d])]),
                           geo_path.dim),
                      squared)
    IN  List([d \in 1 .. geo_path.dim |->
            IF squared = Zero
            THEN Zero
            ELSE IF dl_du(geo_path, u) # Zero
            THEN QDiv(QSub(second[d], QMul(first[d], ratio)), squared)
            ELSE IF QSub(second[d], QMul(first[d], ratio)) # Zero
            THEN Unbounded
            ELSE IF first[d] # Zero /\ second[d] # Zero /\ rounding[u].d2x_dl2 = "large"
            THEN Unbounded
            ELSE Zero])

\* The length of the straight piece of the path from u0 to uf
Chord(geo_path, u0, uf) ==
    VectorNorm(List([d \in 1 .. geo_path.dim |->
                   QSub(PolyAt(geo_path.tck[d], uf), PolyAt(geo_path.tck[d], u0))]))

\* The places strictly between u0 and uf where the path turns back
TurnsBetween(geo_path, u0, uf) ==
    {r \in UNION {CriticalPoints(geo_path.tck[d]) : d \in 1 .. geo_path.dim} :
        QLt(u0, r) /\ QLt(r, uf)}

\* GeometricPath._calculate_segment_length: quad(dl_du, u0, uf), the integral
\* of dl_du, taken piece by piece between the places where the path turns.
RECURSIVE calculate_segment_length(_, _, _)
calculate_segment_length(geo_path, u0, uf) ==
    IF QLt(uf, u0) THEN QNeg(calculate_segment_length(geo_path, uf, u0))
    ELSE LET stops == SortedRationals({Place(u0), Place(uf)}
                                      \cup TurnsBetween(geo_path, u0, uf))
         IN  QSum(List([i \in 1 .. Len(stops) - 1 |-> Chord(geo_path, stops[i], stops[i + 1])]),
                  Len(stops) - 1)

\* GeometricPath.__init__: the parameters, the spline and the lengths at the
\* keypoints; splprep raises TypeError unless there are more keypoints than
\* the degree, and ValueError when two consecutive keypoints coincide.
path_fitted(dim, u, position_seqs) ==
    [dim |-> dim, u |-> u,
     tck |-> List([d \in 1 .. dim |-> CubicThrough(u, position_seqs[d])])]

path_measured(geo_path) ==
    [dim |-> geo_path.dim, u |-> geo_path.u, tck |-> geo_path.tck,
     length_at_u |->
        List([i \in 1 .. Len(geo_path.u) |->
            QSum(List([k \in 1 .. i - 1 |->
                     calculate_segment_length(geo_path, geo_path.u[k], geo_path.u[k + 1])]),
                 i - 1)])]

chord_parameters(dist) ==
    List([i \in 1 .. Len(dist) + 1 |-> QDiv(QSum(dist, i - 1), QSum(dist, Len(dist)))])

GeometricPath(position_seqs) ==
    LET m == Len(position_seqs[1])
    IN  IF m <= SplineDegree
        THEN Failed("TypeError")
        ELSE IF \E i \in 1 .. m - 1 : ChordLength(position_seqs, i) = Zero
        THEN Failed("ValueError")
        ELSE Solved(path_measured(path_fitted(
                 Len(position_seqs),
                 chord_parameters(List([i \in 1 .. m - 1 |-> ChordLength(position_seqs, i)])),
                 position_seqs)))

(***************************************************************************)
(* Sequence.generate_times_and_velocities (resample_number None).          *)
(*                                                                         *)
(* A speed limit is kept as its sign and its square, [sgn, sq] standing    *)
(* for sgn * sq ** 0.5, so the limits and their comparisons are exact.     *)
(* The times and velocities of the points of the returned Sequence are     *)
(* numbers, sums of square roots where the source takes roots.             *)
(***************************************************************************)
SubdivisionsPerSample == 10     \* sub-intervals between two sample points

Speed(sgn, sq) == [sgn |-> sgn, sq |-> sq]
SpeedOf(x) == Speed(Sign(x), QSq(x))            \* the number x
RootOf(x) == Speed(Sign(x), x)                  \* x ** 0.5, x >= 0
AtRest == Speed(0, Zero)

\* A speed of the size of a rounding error (1e-7 and less): above 0, below
\* every other speed above 0, and 0 to the digits of the model where it is
\* added to another speed or squared.
Tiny == Speed(1, Zero)

SpeedLt(a, b) ==
    IF a.sgn # b.sgn THEN a.sgn < b.sgn
    ELSE IF a.sgn = 1 THEN QLt(a.sq, b.sq)
    ELSE IF a.sgn = -1 THEN QLt(b.sq, a.sq)
    ELSE FALSE

\* The larger of the two, where the source takes the smaller.
min_larger(a, b) == IF SpeedLt(a, b) THEN b ELSE a

\* min(a, b) of the source: b when b < a, and a otherwise
min(a, b) == IF SpeedLt(b, a) THEN b ELSE a

\* The number a speed limit stands for
SpeedValue(v) == NScale(R(v.sgn), sqrt(v.sq))

\* speed_limits[i] * d: the component along an axis of the velocity of a
\* point; at a limit of the size of a rounding error it is of that size and
\* has the sign of d.
speed_along(speed, d) ==
    IF speed = Tiny THEN NScale(d, Small) ELSE NScale(d, SpeedValue(speed))

\* math.isclose(a, b): abs(a - b) <= 1e-9 * max(abs(a), abs(b))
isclose(a, b) ==
    \/ a = b
    \/ LET larger == IF QLt(RAbs(a), RAbs(b)) THEN RAbs(b) ELSE RAbs(a)
           ratio == QDiv(RAbs(QSub(a, b)), larger)
       IN  ratio[1] <= ratio[2] \div 1000000000

\* "For each sample point, use N points in calculations": index i > 1 is
\* point (i - 2) % 10 + 1 of the span that starts at sample (i - 2) \div 10 + 1.
subdivided(u_sample) ==
    List([i \in 1 .. SubdivisionsPerSample * (Len(u_sample) - 1) + 1 |->
        IF i = 1 THEN Zero
        ELSE LET span == ((i - 2) \div SubdivisionsPerSample) + 1
                 k == ((i - 2) % SubdivisionsPerSample) + 1
                 parameterized_sublength ==
                     QDiv(QSub(u_sample[span + 1], u_sample[span]),
                          R(SubdivisionsPerSample))
             IN  IF k = SubdivisionsPerSample THEN u_sample[span + 1]
                 ELSE QAdd(u_sample[span], QMul(parameterized_sublength, R(k)))])

\* newton / bisect on dx_du of axis d between two calculation points: the
\* float found for the zero of the derivative nearest to the middle of the
\* span.
reversal_root(geo_path, d, u0, uf) ==
    LET middle == QDiv(QAdd(u0, uf), R(2))
        roots == CriticalPoints(geo_path.tck[d])
    IN  Root(CHOOSE r \in roots :
                 \A other \in roots :
                     QLe(RAbs(QSub(r, middle)), RAbs(QSub(other, middle))))

\* u_inserts: the axes whose direction changes sign over the span, each with
\* the root found, sorted by root (axes with one root keep their order).
u_inserts(geo_path, u0, uf) ==
    LET initial_direction == direction(geo_path, u0)
        final_direction == direction(geo_path, uf)
        found == {<<d, reversal_root(geo_path, d, u0, uf)>> :
                     d \in {d \in 1 .. geo_path.dim :
                               Sign(initial_direction[d]) * Sign(final_direction[d]) < 0}}
    IN  CHOOSE f \in [1 .. Cardinality(found) -> found] :
            \A i \in 1 .. Cardinality(found), j \in 1 .. Cardinality(found) :
                i < j => \/ QLt(f[i][2], f[j][2])
                         \/ f[i][2] = f[j][2] /\ f[i][1] < f[j][1]

\* reversals.setdefault(key, []) and reversals[key].append(d)
reversal_recorded(reversals, key, d) ==
    IF key \in DOMAIN reversals
    THEN [reversals EXCEPT ![key] = Append(@, d)]
    ELSE reversals @@ (key :> <<d>>)

\* u_calc[:index] + [u_insert] + u_calc[index:], u_insert landing at `place`
inserted(list, place, u_insert) ==
    List([i \in 1 .. Len(list) + 1 |->
        IF i < place THEN list[i] ELSE IF i = place THEN u_insert ELSE list[i - 1]])

\* The loop over the sorted inserts; st = [u_calc, reversals, segment_index].
RECURSIVE insert_reversals(_, _, _)
insert_reversals(k, inserts, st) ==
    IF k > Len(inserts)
    THEN st
    ELSE IF isclose(inserts[k][2], st.u_calc[st.segment_index])
    THEN insert_reversals(
             k + 1, inserts,
             [st EXCEPT !.reversals =
                            reversal_recorded(@, st.segment_index, inserts[k][1])])
    ELSE insert_reversals(
             k + 1, inserts,
             [u_calc |-> inserted(st.u_calc, st.segment_index + 1, inserts[k][2]),
              reversals |-> reversal_recorded(st.reversals, st.segment_index + 1,
                                              inserts[k][1]),
              segment_index |-> st.segment_index + 1])

\* One turn of the loop below: the inserts of the span at segment_index, then
\* segment_index += 1
reversals_of_span(geo_path, st) ==
    [insert_reversals(
         1,
         u_inserts(geo_path, st.u_calc[st.segment_index],
                   st.u_calc[st.segment_index + 1]),
         st)
     EXCEPT !.segment_index = @ + 1]

\* "Find points where axes change directions": the turns of the loop from
\* the state st on until segment_index reaches the last point, and `turns` of
\* them at most: the first half of them, then the rest from where the first
\* half stopped.
RECURSIVE some_reversals(_, _, _)
some_reversals(geo_path, st, turns) ==
    IF st.segment_index < Len(st.u_calc) /\ turns > 1
    THEN some_reversals(geo_path,
                        some_reversals(geo_path, st, turns \div 2),
                        turns - turns \div 2)
    ELSE IF st.segment_index < Len(st.u_calc)
    THEN reversals_of_span(geo_path, st)
    ELSE st

\* while segment_index < len(u_calc) - 1, the indices being those of the
\* source plus one
RECURSIVE find_reversals(_, _)
find_reversals(geo_path, st) ==
    IF st.segment_index < Len(st.u_calc)
    THEN find_reversals(geo_path, some_reversals(geo_path, st, Len(st.u_calc)))
    ELSE st

\* What generate_calculation_points returns, kept together with the sample
\* parameters it was given
calculation_points(u_sample, found) ==
    [u_sample |-> u_sample, u_calc |-> found.u_calc, reversals |-> found.reversals]

\* generate_calculation_points(u_sample, geo_path)
generate_calculation_points(u_sample, geo_path) ==
    calculation_points(
        u_sample,
        find_reversals(geo_path,
                       [u_calc |-> subdivided(u_sample),
                        reversals |-> <<>>,
                        segment_index |-> 1]))

\* GeometricPath.segment_length(u0, uf).  The indices are those of the
\* source plus one.
first_index_after_u0(geo_path, u0) ==
    IF \E i \in 1 .. Len(geo_path.u) : FloatLe(u0, geo_path.u[i])
    THEN CHOOSE i \in 1 .. Len(geo_path.u) :
             /\ FloatLe(u0, geo_path.u[i])
             /\ \A j \in 1 .. i - 1 : ~FloatLe(u0, geo_path.u[j])
    ELSE Len(geo_path.u)

last_index_before_uf(geo_path, uf) ==
    IF \E i \in 1 .. Len(geo_path.u) : FloatLt(uf, geo_path.u[i])
    THEN (CHOOSE i \in 1 .. Len(geo_path.u) :
              /\ FloatLt(uf, geo_path.u[i])
              /\ \A j \in 1 .. i - 1 : ~FloatLt(uf, geo_path.u[j])) - 1
    ELSE Len(geo_path.u)

segment_length_direct(geo_path, u0, uf) ==
    \/ last_index_before_uf(geo_path, uf) >= first_index_after_u0(geo_path, u0) - 1
    \/ last_index_before_uf(geo_path, uf) < 1

segment_length(geo_path, u0, uf) ==
    IF segment_length_direct(geo_path, u0, uf)
    THEN calculate_segment_length(geo_path, u0, uf)
    ELSE QAdd(QAdd(calculate_segment_length(
                       geo_path, u0, geo_path.u[first_index_after_u0(geo_path, u0)]),
                   QSub(geo_path.length_at_u[last_index_before_uf(geo_path, uf)],
                        geo_path.length_at_u[first_index_after_u0(geo_path, u0)])),
              calculate_segment_length(
                  geo_path, geo_path.u[last_index_before_uf(geo_path, uf)], uf))

\* The assertion at the end of segment_length: (uf >= u0) == (length >= 0)
segment_length_raises(geo_path, u0, uf) ==
    /\ ~segment_length_direct(geo_path, u0, uf)
    /\ FloatLe(u0, uf) # QLe(Zero, segment_length(geo_path, u0, uf))

\* (denominator := sum(d2xi_dl2**2 for d2xi_dl2 in d2x_dl2)) != 0
denominator_not_zero(curvature) ==
    \/ \E d \in 1 .. Len(curvature) : curvature[d] = Unbounded
    \/ SumOfSquares(curvature) # Zero

\* (target_accel**2 / denominator) ** (1 / 4).  With a d2x_dl2 of the size
\* 2 ** 52 and beyond that the rounding leaves where the path turns back,
\* the limit is of the size 1e-7 and less, and 0 for a target_accel of 0.
curvature_limit(curvature, target_accel) ==
    IF \E d \in 1 .. Len(curvature) : curvature[d] = Unbounded
    THEN IF target_accel = Zero THEN AtRest ELSE Tiny
    ELSE RootOf(Rational(sqrt(QDiv(QSq(target_accel), SumOfSquares(curvature)))))

\* (speed ** 2 + 2 * target_accel * length) ** 0.5 for the radicand the
\* model has, which is not negative.  A radicand of 0 leaves a speed of the
\* size of a rounding error when the speed is one, and when the span leads
\* from an inserted root to the calculation point at its place (apart): the
\* floats of the two differ, and the length between them is of the size
\* 1e-24 where the model has 0.
reached(speed, radicand, target_accel, apart) ==
    IF radicand = Zero /\ (speed = Tiny \/ (apart /\ QLt(Zero, target_accel)))
    THEN Tiny
    ELSE RootOf(radicand)

\* A step that leaves out the limit from the deceleration to the next point.
backward_step_undecelerated(i, st, geo_path, calc, segment_lengths, target_accel) ==
    LET radicand == QAdd(st.speed_limits[i + 1].sq,
                         QMul(QMul(R(2), target_accel), segment_lengths[i]))
        decelerated == st.speed_limits[i]
        curvature == d2x_dl2(geo_path, calc.u_calc[i])
    IN  IF QLt(radicand, Zero)
        THEN [st EXCEPT !.status = "TypeError"]
        ELSE IF i \in DOMAIN calc.reversals /\ Len(calc.reversals[i]) = geo_path.dim
        THEN [st EXCEPT !.speed_limits[i] = min(decelerated, AtRest)]
        ELSE IF denominator_not_zero(curvature)
        THEN [st EXCEPT !.speed_limits[i] =
                            min(decelerated, curvature_limit(curvature, target_accel))]
        ELSE [st EXCEPT !.speed_limits[i] = decelerated]

\* One step of "Calculate speed limits from end point", for calculation
\* point i; st = [status, speed_limits].  A negative number raised to 0.5 is
\* a complex number, which min() cannot compare: TypeError.
backward_step(i, st, geo_path, calc, segment_lengths, target_accel) ==
    LET radicand == QAdd(st.speed_limits[i + 1].sq,
                         QMul(QMul(R(2), target_accel), segment_lengths[i]))
        decelerated == min(st.speed_limits[i],
                           reached(st.speed_limits[i + 1], radicand, target_accel,
                                   FloatLt(calc.u_calc[i], calc.u_calc[i + 1])))
        curvature == d2x_dl2(geo_path, calc.u_calc[i])
    IN  IF QLt(radicand, Zero)
        THEN [st EXCEPT !.status = "TypeError"]
        ELSE IF i \in DOMAIN calc.reversals /\ Len(calc.reversals[i]) = geo_path.dim
        THEN [st EXCEPT !.speed_limits[i] = min(decelerated, AtRest)]
        ELSE IF denominator_not_zero(curvature)
        THEN [st EXCEPT !.speed_limits[i] =
                            min(decelerated, curvature_limit(curvature, target_accel))]
        ELSE [st EXCEPT !.speed_limits[i] = decelerated]

\* The loop over i = last, last - 1, ..., first, until a step raises: the
\* upper half of the indices, then the lower half.
RECURSIVE backward_pass(_, _, _, _, _, _, _)
backward_pass(last, first, st, geo_path, calc, segment_lengths, target_accel) ==
    IF st.status = "returned" /\ first < last
    THEN backward_pass(
             (first + last) \div 2, first,
             backward_pass(last, (first + last) \div 2 + 1, st,
                           geo_path, calc, segment_lengths, target_accel),
             geo_path, calc, segment_lengths, target_accel)
    ELSE IF st.status = "returned" /\ first = last
    THEN backward_step(last, st, geo_path, calc, segment_lengths, target_accel)
    ELSE st

\* Limits that put only the first point at rest.
initial_speed_limits_open_end(n, target_speed) ==
    List([i \in 1 .. n |-> IF i = 1 THEN AtRest ELSE SpeedOf(target_speed)])

\* speed_limits = [target_speed for _ in u_calc]; speed_limits[0] =
\* speed_limits[-1] = 0
initial_speed_limits(n, target_speed) ==
    List([i \in 1 .. n |-> IF i \in {1, n} THEN AtRest ELSE SpeedOf(target_speed)])

\* The Point emitted for a calculation point
profile_point(geo_path, u, speed, time) ==
    Point(PathPosition(geo_path, u),
          List([d \in 1 .. geo_path.dim |->
              speed_along(speed, direction(geo_path, u)[d])]),
          time)

\* sum(speed_limits[i - 1 : i + 1]) / 2, to the digits of the model
average_speed(a, b) == NScale(Rat(1, 2), NAdd(SpeedValue(a), SpeedValue(b)))

\* (average_speed := ...) == 0: a speed of the size of a rounding error is
\* not 0.
average_is_zero(a, b) == average_speed(a, b) = Zero /\ a # Tiny /\ b # Tiny

\* segment_lengths[i - 1] / average_speed for an average that is not 0: a
\* length divided by an average of the size of a rounding error is beyond
\* every bound (the length is kept with it), and a length of 0 gives 0.
length_over_speed(length, average) ==
    IF average = Zero THEN NScale(length, Huge)
    ELSE NScale(length, NInv(average))

\* A step that takes the time off.
time_step_back(length, from, to, target_accel) ==
    [rest |-> average_is_zero(from, to), length |-> length, from |-> from, to |-> to,
     time |-> IF average_is_zero(from, to)
              THEN NNeg(sqrt(QDiv(length, target_accel)))
              ELSE NNeg(length_over_speed(length, average_speed(from, to)))]

\* The time added for a sub-span
time_step(length, from, to, target_accel) ==
    [rest |-> average_is_zero(from, to), length |-> length, from |-> from, to |-> to,
     time |-> IF average_is_zero(from, to)
              THEN sqrt(QDiv(length, target_accel))
              ELSE length_over_speed(length, average_speed(from, to))]

\* The Sequence and next_sample_index once calculation point i has been
\* looked at: it is emitted when it has reached the next sample point.
emitted(i, st, geo_path, calc, speed, time) ==
    IF st.next_sample_index > Len(calc.u_sample)
    THEN [st EXCEPT !.status = "IndexError"]
    ELSE IF FloatLe(calc.u_sample[st.next_sample_index], calc.u_calc[i])
    THEN LET built == append_point(st.points, st.segments,
                                   profile_point(geo_path, calc.u_calc[i], speed, time))
         IN  [st EXCEPT !.status = IF built.raised THEN "AssertionError" ELSE "returned",
                        !.points = built.points,
                        !.segments = built.segments,
                        !.next_sample_index = @ + 1]
    ELSE st

\* One step of "Calculate speed limits from start point and assemble
\* sequence", for calculation point i; st = [status, speed_limits, time,
\* time_steps, next_sample_index, points, segments].  A division by a zero
\* target_accel raises ZeroDivisionError; the root of a negative number makes
\* the time complex, which the ordering check of the next Segment cannot
\* compare: TypeError.
forward_step(i, st, geo_path, calc, segment_lengths, target_accel) ==
    LET length == segment_lengths[i - 1]
        from == st.speed_limits[i - 1]
        radicand == QAdd(from.sq, QMul(QMul(R(2), target_accel), length))
        to == min(st.speed_limits[i],
                  reached(from, radicand, target_accel,
                          FloatLt(calc.u_calc[i - 1], calc.u_calc[i])))
    IN  IF QLt(radicand, Zero)
        THEN [st EXCEPT !.status = "TypeError"]
        ELSE IF average_is_zero(from, to) /\ target_accel = Zero
        THEN [st EXCEPT !.status = "ZeroDivisionError", !.speed_limits[i] = to]
        ELSE IF average_is_zero(from, to) /\ QLt(QDiv(length, target_accel), Zero)
        THEN [st EXCEPT !.status = "TypeError", !.speed_limits[i] = to]
        ELSE emitted(i,
                     [st EXCEPT
                        !.speed_limits[i] = to,
                        !.time = NAdd(@, time_step(length, from, to, target_accel).time),
                        !.time_steps = Append(@, time_step(length, from, to, target_accel))],
                     geo_path, calc, to,
                     NAdd(st.time, time_step(length, from, to, target_accel).time))

\* The loop over i = first, first + 1, ..., last, until a step raises: the
\* lower half of the indices, then the upper half.
RECURSIVE forward_pass(_, _, _, _, _, _, _)
forward_pass(first, last, st, geo_path, calc, segment_lengths, target_accel) ==
    IF st.status = "returned" /\ first < last
    THEN forward_pass(
             (first + last) \div 2 + 1, last,
             forward_pass(first, (first + last) \div 2, st,
                          geo_path, calc, segment_lengths, target_accel),
             geo_path, calc, segment_lengths, target_accel)
    ELSE IF st.status = "returned" /\ first = last
    THEN forward_step(first, st, geo_path, calc, segment_lengths, target_accel)
    ELSE st

\* What generate_times_and_velocities computed on its way
Profile(u_sample, calc, segment_lengths, backward_limits, speed_limits, time_steps) ==
    [u_sample |-> u_sample, u_calc |-> calc.u_calc, reversals |-> calc.reversals,
     segment_lengths |-> segment_lengths, backward_limits |-> backward_limits,
     speed_limits |-> speed_limits, time_steps |-> time_steps]

NoProfile ==
    Profile(<<>>, [u_calc |-> <<>>, reversals |-> <<>>], <<>>, <<>>, <<>>, <<>>)

ProfileGenerated(status, pts, segs, profile) ==
    [status |-> status, points |-> pts, segments |-> segs, profile |-> profile]

\* The forward pass and the Sequence it assembles, given the limits of the
\* backward pass; a call that raises returns no Sequence.
profile_assembled(geo_path, calc, segment_lengths, backward, forward) ==
    ProfileGenerated(
        forward.status,
        IF forward.status = "returned" THEN forward.points ELSE <<>>,
        IF forward.status = "returned" THEN forward.segments ELSE <<>>,
        Profile(calc.u_sample, calc, segment_lengths, backward.speed_limits,
                forward.speed_limits, forward.time_steps))

profile_forward(geo_path, calc, segment_lengths, backward, target_accel) ==
    IF backward.status # "returned"
    THEN ProfileGenerated(backward.status, <<>>, <<>>,
                          Profile(calc.u_sample, calc, segment_lengths,
                                  backward.speed_limits, backward.speed_limits, <<>>))
    ELSE profile_assembled(
             geo_path, calc, segment_lengths, backward,
             forward_pass(
                 2, Len(calc.u_calc),
                 [status |-> "returned",
                  speed_limits |-> backward.speed_limits,
                  time |-> Zero,
                  time_steps |-> <<>>,
                  next_sample_index |-> 2,
                  points |-> <<profile_point(geo_path, calc.u_sample[1],
                                             backward.speed_limits[1], Zero)>>,
                  segments |-> <<>>],
                 geo_path, calc, segment_lengths, target_accel))

profile_backward(geo_path, calc, segment_lengths, target_speed, target_accel) ==
    profile_forward(
        geo_path, calc, segment_lengths,
        backward_pass(Len(calc.u_calc) - 1, 2,
                      [status |-> "returned",
                       speed_limits |-> initial_speed_limits(Len(calc.u_calc), target_speed)],
                      geo_path, calc, segment_lengths, target_accel),
        target_accel)

profile_measured(geo_path, calc, target_speed, target_accel) ==
    profile_backward(
        geo_path, calc,
        List([i \in 1 .. Len(calc.u_calc) - 1 |->
            segment_length(geo_path, calc.u_calc[i], calc.u_calc[i + 1])]),
        target_speed, target_accel)

\* np.interp(x, xp, fp) for increasing xp: the value at x of the line
\* through the two neighbouring table entries, the first or last entry
\* outside the table
interp(x, xp, fp) ==
    IF QLe(x, xp[1]) THEN fp[1]
    ELSE IF QLe(xp[Len(xp)], x) THEN fp[Len(fp)]
    ELSE LET i == CHOOSE i \in 1 .. Len(xp) - 1 : QLe(xp[i], x) /\ QLt(x, xp[i + 1])
         IN  QAdd(fp[i], QDiv(QMul(QSub(x, xp[i]), QSub(fp[i + 1], fp[i])),
                              QSub(xp[i + 1], xp[i])))

\* The function whose root calc_u_at_length looks for:
\* segment_length(u0, u) - delta_len, with u0 = self._u[i0] and
\* delta_len = length - self._length_at_u[i0].  It grows with u, so it has
\* one root.
length_residual(geo_path, length, i0, u) ==
    QSub(segment_length(geo_path, geo_path.u[i0], u),
         QSub(length, geo_path.length_at_u[i0]))

\* The fraction between two neighbouring fractions that has the smallest
\* denominator
Mediant(low, high) == <<low[1] + high[1], low[2] + high[2]>>

\* The root of length_residual between low and high, which are neighbouring
\* fractions: their mediant when the function is 0 there, and the root of
\* the side on which the function changes sign otherwise.  Every fraction
\* between 0 and 1 is met this way; `depth` bounds the steps, and the search
\* has no value for a root that is not met within them (one that is not a
\* fraction among them).
RECURSIVE root_between(_, _, _, _, _, _)
root_narrowed(geo_path, length, i0, low, high, depth, middle, value) ==
    CASE value = Zero -> middle
      [] QLt(value, Zero) /\ depth > 1 ->
             root_between(geo_path, length, i0, middle, high, depth - 1)
      [] QLt(Zero, value) /\ depth > 1 ->
             root_between(geo_path, length, i0, low, middle, depth - 1)

root_between(geo_path, length, i0, low, high, depth) ==
    root_narrowed(geo_path, length, i0, low, high, depth, Mediant(low, high),
                  length_residual(geo_path, length, i0, Mediant(low, high)))

\* The steps within which the roots of the paths of the model are met
MaxRootDepth == 12

\* newton(lambda u: self.segment_length(u0, u) - delta_len, u_estimate,
\* self.dl_du, fprime2=self.d2l_du2).  newton evaluates the function at its
\* starting point first and returns the starting point when the value is 0:
\* the estimate is the root then, which is so on a straight path, where the
\* length grows linearly with u.  Otherwise it iterates, with the
\* derivatives it is given, until two iterates are within 1.48e-8 of each
\* other, and returns the last of them: the float of the root.  The value
\* here is the root in both cases, the function having one; the estimate
\* tells which keypoint the length is measured from.  (newton raises
\* RuntimeError where dl_du is 0 at an iterate, which is at no estimate of
\* the paths of the model.)
newton(geo_path, length, i0, u_estimate) ==
    root_between(geo_path, length, i0, Zero, R(1), MaxRootDepth)

\* GeometricPath.calc_u_at_length(length): the estimate is
\* np.interp(length, self._length_at_u, self._u), i0 the index of the last
\* keypoint parameter that is not after the estimate, and the value what
\* newton returns from the estimate.
calc_u_at_length(geo_path, length) ==
    newton(geo_path, length,
           last_index_before_uf(geo_path,
                                interp(length, geo_path.length_at_u, geo_path.u)),
           interp(length, geo_path.length_at_u, geo_path.u))

\* [0] + [calc_u_at_length(i * length / (resample_number - 1)) for i in
\* range(1, resample_number - 1)] + [1]: the range is empty for a
\* resample_number below 3, which leaves the two ends.
resampled(geo_path, resample_number, n) ==
    List([k \in 1 .. n |->
        IF k = 1 THEN R(0)
        ELSE IF k = n THEN R(1)
        ELSE calc_u_at_length(
                 geo_path,
                 QDiv(QMul(R(k - 1), geo_path.length_at_u[Len(geo_path.length_at_u)]),
                      R(resample_number - 1)))])

\* u_sample of generate_times_and_velocities: the keypoint parameters when
\* resample_number is None.  A resample_number that is given is the
\* one-element list of its value.
u_sample(geo_path, resample_number) ==
    IF resample_number = None
    THEN geo_path.u
    ELSE resampled(geo_path, resample_number[1],
                   IF resample_number[1] > 2 THEN resample_number[1] ELSE 2)

profile_of_path(path, target_speed, target_accel, resample_number) ==
    IF path.status # "returned"
    THEN ProfileGenerated(path.status, <<>>, <<>>, NoProfile)
    ELSE profile_measured(path.value,
                          generate_calculation_points(
                              u_sample(path.value, resample_number), path.value),
                          target_speed, target_accel)

\* generate_times_and_velocities(position_sequences, target_speed,
\* target_accel, resample_number)
generate_times_and_velocities(position_seqs, target_speed, target_accel, resample_number) ==
    profile_of_path(GeometricPath(position_seqs), target_speed, target_accel,
                    resample_number)

(***************************************************************************)
(* The paths and targets handed to generate_times_and_velocities.          *)
(***************************************************************************)
Keypoints(list) == List([i \in 1 .. Len(list) |-> R(list[i])])

\* Paths along one axis that turn back strictly between two calculation
\* points; the last one does so twice.
BendingPaths1 ==
    {<<Keypoints(list)>> : list \in {<<0, 3, 5, 1>>, <<0, 3, 8, 0>>, <<0, 8, 3, 0>>}}
    \cup {<<List([i \in 1 .. 4 |-> Rat(<<3, 2, 10, 0>>[i], 4)])>>}

\* The paths with a calculation point where they turn back, along one axis
\* and along two
TurningPaths1 ==
    {<<Keypoints(list)>> : list \in {<<0, 1, 6, 1>>, <<0, 1, 3, 2>>}}

TurningPaths2 ==
    {<<Keypoints(<<0, 3, 9, 6>>), Keypoints(<<0, 4, 12, 8>>)>>}

\* Paths along one axis: straight ones, the ones that turn back, one of
\* three keypoints and one with a repeated keypoint.
ProfilePaths1 ==
    {<<Keypoints(list)>> :
        list \in {<<0, 1, 2, 3>>, <<0, 2, 3, 7>>, <<3, 2, 1, 0>>,
                  <<0, 1, 2>>, <<0, 1, 1, 2>>}}
    \cup BendingPaths1 \cup TurningPaths1

\* A path along two axes, on a line, that turns back between calculation
\* points
BendingPaths2 ==
    {<<List([i \in 1 .. 4 |-> Rat(3 * <<0, 3, 5, 1>>[i], 5)]),
       List([i \in 1 .. 4 |-> Rat(4 * <<0, 3, 5, 1>>[i], 5)])>>}

\* Paths that turn back while their second axis stays where it is: the
\* point inserted where they turn is recorded for the first axis only, and
\* d2x_dl2 is asked for there.  The first turns back between calculation
\* points, the second on a keypoint and once more between the last two
\* calculation points.
StillAxisPaths ==
    {<<Keypoints(<<0, 3, 5, 1>>), Keypoints(<<0, 0, 0, 0>>)>>}

TurningStillPaths ==
    {<<Keypoints(<<0, 3, -2, -9>>), Keypoints(<<0, 0, 0, 0>>)>>}

\* Paths along two axes, on a line: a straight one and the ones that turn
\* back.
ProfilePaths2 ==
    {<<Keypoints(<<0, 3, 6, 9>>), Keypoints(<<0, 4, 8, 12>>)>>}
    \cup BendingPaths2 \cup StillAxisPaths \cup TurningStillPaths \cup TurningPaths2

ProfilePaths == ProfilePaths1 \cup ProfilePaths2

TargetSpeeds == {R(-1), R(0), R(1), R(2)}
TargetAccels == {R(-1), R(0), R(1), R(4)}

\* The targets of a path that turns back between calculation points: an
\* acceleration that reaches the target speed within one calculation point,
\* which keeps the times of the points within the integers of the model.
BendingSpeeds == {R(-1), R(0), Rat(1, 4), R(1)}
BendingAccels == {R(-1), R(0), R(1024)}

\* The targets of the path along (3, 4) that turns back on a keypoint: five
\* times those of a path along one axis, as its length is.
LongSpeeds == {R(-1), R(0), R(5), R(10)}
LongAccels == {R(-1), R(0), R(5), R(20)}

ProfileTargets(position_seqs) ==
    IF position_seqs \in BendingPaths1 \cup BendingPaths2 \cup StillAxisPaths
    THEN BendingSpeeds \X BendingAccels
    ELSE IF position_seqs \in TurningStillPaths
    THEN (BendingSpeeds \ {R(1)}) \X BendingAccels
    ELSE IF position_seqs \in TurningPaths2
    THEN LongSpeeds \X LongAccels
    ELSE TargetSpeeds \X TargetAccels

\* The places where a path turns back: the derivative of every axis is 0.
TurningPlaces(geo_path) ==
    {u \in UNION {CriticalPoints(geo_path.tck[d]) : d \in 1 .. geo_path.dim} :
        QLe(Zero, u) /\ QLe(u, R(1)) /\ dl_du(geo_path, u) = Zero}

\* The calculation points that can lie there: the root found for the place,
\* and the place itself when it is a point of the subdivision of the
\* keypoints.
Sites(geo_path) ==
    {Root(u) : u \in TurningPlaces(geo_path)}
    \cup {u \in TurningPlaces(geo_path) :
              \E i \in 1 .. Len(subdivided(geo_path.u)) : subdivided(geo_path.u)[i] = u}

\* What the floats can come to on a path, point by point
Roundings(position_seqs) ==
    IF GeometricPath(position_seqs).status # "returned"
    THEN {Unrounded}
    ELSE [Sites(GeometricPath(position_seqs).value) -> SiteRoundings(position_seqs)]

\* The roundings a call is made with: every one at the points of the
\* subdivision.  At an inserted root the derivative of every axis that
\* moves floats above 0, and d2x_dl2 comes to either value where an axis
\* stays where it is, which is where d2x_dl2 is asked for at a root.
ProfileRoundings(position_seqs) ==
    {r \in Roundings(position_seqs) :
        \A u \in DOMAIN r :
            Len(u) = 3
            => /\ \A d \in 1 .. Len(position_seqs) :
                      r[u].dx_du[d] = IF Moves(position_seqs[d]) THEN 1 ELSE 0
               /\ (\A d \in 1 .. Len(position_seqs) : Moves(position_seqs[d]))
                      => r[u].d2x_dl2 = "cancels"}

InitProfile ==
    /\ points = <<>>
    /\ segments = <<>>
    /\ call = NoCall
    /\ time_sequence = <<>>
    /\ velocity_sequences = <<>>
    /\ velocity_input = <<>>
    /\ csv = NoCsv
    /\ position_sequences \in ProfilePaths
    /\ rounding \in ProfileRoundings(position_sequences)

\* What a call of generate_times_and_velocities leaves: the Sequence it
\* returned (none when it raised) and, in the call, the targets and what was
\* computed.  The positions are read and never written.
ProfileCall(target_speed, target_accel, resample_number, res) ==
    /\ points' = res.points
    /\ segments' = res.segments
    /\ call' = Call("generate_times_and_velocities", res.status, NoPoint, NoTime, 0,
                    [target_speed |-> target_speed, target_accel |-> target_accel,
                     resample_number |-> resample_number, profile |-> res.profile])
    /\ UNCHANGED <<lists, files>>

\* Sequence.generate_times_and_velocities(position_sequences, target_speed,
\* target_accel, resample_number).  The method is static and keeps nothing
\* from one call to the next, so a behaviour makes one call.
GenerateTimesAndVelocities(target_speed, target_accel, resample_number) ==
    /\ call = NoCall
    /\ ProfileCall(target_speed, target_accel, resample_number,
                   generate_times_and_velocities(position_sequences, target_speed,
                                                 target_accel, resample_number))

NextProfile ==
    \E targets \in ProfileTargets(position_sequences) :
        GenerateTimesAndVelocities(targets[1], targets[2], None)

SpecProfile == InitProfile /\ [][NextProfile]_vars

(***************************************************************************)
(* generate_times_and_velocities with a resample_number.                   *)
(***************************************************************************)
\* Straight paths, along one axis and along two, whose keypoints are evenly
\* spaced or not: the length grows linearly with u on all of them.
StraightResamplePaths ==
    {<<Keypoints(<<0, 1, 2, 3>>)>>, <<Keypoints(<<3, 2, 1, 0>>)>>,
     <<Keypoints(<<0, 1, 3, 4>>)>>, <<Keypoints(<<0, 2, 3, 4>>)>>,
     <<Keypoints(<<0, 3, 6, 9>>), Keypoints(<<0, 4, 8, 12>>)>>}

\* A path that turns back twice, at u = 1/6 and at u = 3/4, between
\* calculation points: x = u (u - 1) (8 u - 3), the keypoints [0, 5, -11, 0]
\* scaled by 189 / 4096.  Its length does not grow linearly with u: the
\* point at half its length is at u = 13/24, and the linear estimate of it
\* is 63899/119008.
BendingResamplePaths ==
    {<<List(<<R(0), Rat(945, 4096), Rat(-2079, 4096), R(0)>>)>>}

ResamplePaths == StraightResamplePaths \cup BendingResamplePaths

MaxResample == 5

\* None keeps the keypoints; 1 and 2 ask for no point between the ends.
ResampleNumbers == {None} \cup {<<n>> : n \in 1 .. MaxResample}

ResampleSpeeds == {R(1), R(2)}
ResampleAccels == {R(1), R(4)}

\* The calls made on the path that turns back: the resample numbers whose
\* points lie at fractions of u, and targets that keep the times of the
\* points within the integers of the model.
MaxBendingResample == 3
BendingResampleNumbers == {<<n>> : n \in 1 .. MaxBendingResample}
BendingResampleSpeeds == {Rat(1, 4), Rat(1, 2)}
BendingResampleAccels == {R(1024), R(4096)}

ResampleCalls(position_seqs) ==
    IF position_seqs \in BendingResamplePaths
    THEN BendingResampleSpeeds \X BendingResampleAccels \X BendingResampleNumbers
    ELSE ResampleSpeeds \X ResampleAccels \X ResampleNumbers

InitResample ==
    /\ points = <<>>
    /\ segments = <<>>
    /\ call = NoCall
    /\ time_sequence = <<>>
    /\ velocity_sequences = <<>>
    /\ velocity_input = <<>>
    /\ csv = NoCsv
    /\ position_sequences \in ResamplePaths
    /\ rounding \in ProfileRoundings(position_sequences)

NextResample ==
    \E resample_call \in ResampleCalls(position_sequences) :
        GenerateTimesAndVelocities(resample_call[1], resample_call[2], resample_call[3])

SpecResample == InitResample /\ [][NextResample]_vars

(***************************************************************************)
(* GeometricPath.segment_length called on its own.                         *)
(***************************************************************************)
\* u0 and uf: tenths of the path, so that a span can lie inside one keypoint
\* interval, reach over keypoints, or run backwards.
SpanEnds == {Rat(k, 10) : k \in 0 .. 10}

\* What a call of segment_length leaves: the length returned, and whether it
\* was integrated directly or taken from the table of lengths at the
\* keypoints.
SegmentLengthCall(geo_path, u0, uf) ==
    /\ call' = Call("segment_length",
                    IF segment_length_raises(geo_path, u0, uf)
                    THEN "AssertionError" ELSE "returned",
                    NoPoint, NoTime, 0,
                    [u0 |-> u0, uf |-> uf, u |-> geo_path.u,
                     direct |-> segment_length_direct(geo_path, u0, uf),
                     length |-> segment_length(geo_path, u0, uf)])
    /\ UNCHANGED <<points, segments, lists, files>>

\* GeometricPath(position_sequences).segment_length(u0, uf), for the paths
\* that can be built.
SegmentLength(u0, uf) ==
    /\ call = NoCall
    /\ GeometricPath(position_sequences).status = "returned"
    /\ SegmentLengthCall(GeometricPath(position_sequences).value, u0, uf)

NextLength == \E u0 \in SpanEnds, uf \in SpanEnds : SegmentLength(u0, uf)

SpecLength == InitProfile /\ [][NextLength]_vars

(***************************************************************************)
(* CSVData: a header row and data rows of cells.  A header cell is the set *)
(* of the keywords ("time", "pos", "vel") its lower-cased name contains; a *)
(* data cell is the text of the cell.                                      *)
(***************************************************************************)
\* The increasing sequence of the members of a set of indices.
SortedIndices(S) ==
    CHOOSE f \in [1 .. Cardinality(S) -> S] :
        \A i \in 1 .. Cardinality(S), j \in 1 .. Cardinality(S) : i < j => f[i] < f[j]

ColumnsNamed(header, keyword) == {i \in 1 .. Len(header) : keyword \in header[i]}

\* float(text) for the texts the files of the model hold; float("") raises.
FloatTexts == {"-1", "0", "1", "2", "3"}

float(text) ==
    CASE text = "-1" -> R(-1)
      [] text = "0" -> R(0)
      [] text = "1" -> R(1)
      [] text = "2" -> R(2)
      [] text = "3" -> R(3)

\* _read_header: the first time column (0 for None), the position columns and
\* the velocity columns, by keyword.
read_header(header) ==
    [time_index |->
         IF ColumnsNamed(header, "time") = {} THEN 0
         ELSE SortedIndices(ColumnsNamed(header, "time"))[1],
     position_indices |-> SortedIndices(ColumnsNamed(header, "pos")),
     velocity_indices |-> SortedIndices(ColumnsNamed(header, "vel"))]

\* Whether _read_row raises on a row: float() of an empty time or position
\* cell.  An empty velocity cell is read as None.
ReadRowRaises(indices, row) ==
    \/ indices.time_index # 0 /\ row[indices.time_index] \notin FloatTexts
    \/ \E k \in 1 .. Len(indices.position_indices) :
           row[indices.position_indices[k]] \notin FloatTexts

\* The CSVData object once the header is read: the indices and the sequences
\* read, or the ValueError of the first row that cannot be read.
read_rows(indices, rows) ==
    IF \E r \in 1 .. Len(rows) : ReadRowRaises(indices, rows[r])
    THEN [status |-> "ValueError"]
    ELSE [status |-> "returned",
          time_index |-> indices.time_index,
          position_indices |-> indices.position_indices,
          velocity_indices |-> indices.velocity_indices,
          time_sequence |->
              IF indices.time_index = 0 THEN <<>>
              ELSE List([r \in 1 .. Len(rows) |-> float(rows[r][indices.time_index])]),
          position_sequences |->
              List([k \in 1 .. Len(indices.position_indices) |->
                  List([r \in 1 .. Len(rows) |-> float(rows[r][indices.position_indices[k]])])]),
          velocity_sequences |->
              List([k \in 1 .. Len(indices.velocity_indices) |->
                  List([r \in 1 .. Len(rows) |->
                      IF rows[r][indices.velocity_indices[k]] # ""
                      THEN float(rows[r][indices.velocity_indices[k]])
                      ELSE None])])]

\* CSVData(filename)
CSVData(file) == read_rows(read_header(file.header), file.rows)

contains_time_data(data) ==
    data.time_index # 0
    /\ \E i \in 1 .. Len(data.time_sequence) : data.time_sequence[i] # None

contains_position_data(data) ==
    Len(data.position_indices) > 0
    /\ \E k \in 1 .. Len(data.position_sequences) :
           \E i \in 1 .. Len(data.position_sequences[k]) :
               data.position_sequences[k][i] # None

contains_velocity_data(data) ==
    Len(data.velocity_indices) > 0
    /\ \E k \in 1 .. Len(data.velocity_sequences) :
           \E i \in 1 .. Len(data.velocity_sequences[k]) :
               data.velocity_sequences[k][i] # None

contains_complete_velocity_data(data) ==
    Len(data.velocity_indices) # 0
    /\ \A k \in 1 .. Len(data.velocity_sequences) :
           \A i \in 1 .. Len(data.velocity_sequences[k]) :
               data.velocity_sequences[k][i] # None


(***************************************************************************)
(* Sequence.from_parameter_sequences and Sequence.from_csv                 *)
(***************************************************************************)
\* A from_parameter_sequences that leaves out the last row.
from_parameter_sequences_short(time_seq, position_seqs, velocity_seqs) ==
    LET built == append_points(1, Returned(<<>>, <<>>), Len(position_seqs),
                               SubSeq(time_seq, 1, Len(time_seq) - 1),
                               position_seqs, velocity_seqs)
    IN  IF Len(time_seq) > 0 /\ Len(velocity_seqs) < Len(position_seqs)
        THEN Generated("IndexError", velocity_seqs, <<>>, <<>>)
        ELSE IF built.raised
        THEN Generated("AssertionError", velocity_seqs, <<>>, <<>>)
        ELSE Generated("returned", velocity_seqs, built.points, built.segments)

\* from_parameter_sequences on velocities that are all numbers: one Point per
\* time with the first len(position_sequences) axes of both arrays.
from_parameter_sequences(time_seq, position_seqs, velocity_seqs) ==
    LET built == append_points(1, Returned(<<>>, <<>>), Len(position_seqs),
                               time_seq, position_seqs, velocity_seqs)
    IN  IF Len(time_seq) > 0 /\ Len(velocity_seqs) < Len(position_seqs)
        THEN Generated("IndexError", velocity_seqs, <<>>, <<>>)
        ELSE IF built.raised
        THEN Generated("AssertionError", velocity_seqs, <<>>, <<>>)
        ELSE Generated("returned", velocity_seqs, built.points, built.segments)

\* What from_csv hands back from generate_times_and_velocities
profile_returned(velocity_seqs, res) ==
    Generated(res.status, velocity_seqs, res.points, res.segments)

\* Sanity checks without the assertion on velocity data when time is absent.
GenerationType_unasserted(data) ==
    LET first == IF ~contains_time_data(data) THEN "TIME_AND_VELOCITY"
                 ELSE IF ~contains_velocity_data(data) THEN "VELOCITY"
                 ELSE IF ~contains_complete_velocity_data(data) THEN "VELOCITY"
                 ELSE "NONE"
    IN  IF contains_time_data(data) /\ ~contains_velocity_data(data)
           /\ ~contains_position_data(data)
        THEN "AssertionError"
        ELSE IF ~contains_position_data(data)
        THEN IF contains_time_data(data) /\ contains_complete_velocity_data(data)
             THEN "POSITION"
             ELSE "AssertionError"
        ELSE first

\* The generation type chosen by the sanity checks, or the assertion that
\* stops them.
GenerationType(data) ==
    LET first == IF ~contains_time_data(data) THEN "TIME_AND_VELOCITY"
                 ELSE IF ~contains_velocity_data(data) THEN "VELOCITY"
                 ELSE IF ~contains_complete_velocity_data(data) THEN "VELOCITY"
                 ELSE "NONE"
    IN  IF ~contains_time_data(data) /\ contains_velocity_data(data)
        THEN "AssertionError"
        ELSE IF contains_time_data(data) /\ ~contains_velocity_data(data)
                /\ ~contains_position_data(data)
        THEN "AssertionError"
        ELSE IF ~contains_position_data(data)
        THEN IF contains_time_data(data) /\ contains_complete_velocity_data(data)
             THEN "POSITION"
             ELSE "AssertionError"
        ELSE first

FromCsvResult(gen_type, entered, data, generated) ==
    [status |-> generated.status, gen_type |-> gen_type, entered |-> entered,
     points |-> generated.points, segments |-> generated.segments,
     time_sequence |-> data.time_sequence,
     position_sequences |-> data.position_sequences,
     velocity_sequences |-> generated.velocity_sequences,
     velocity_read |-> data.velocity_sequences]

NoData == [time_sequence |-> <<>>, position_sequences |-> <<>>, velocity_sequences |-> <<>>]

\* The match on gen_type.  The data.time_sequence, data.position_sequences
\* and data.velocity_sequences properties assert that the data they return
\* exists.  The result names the function that was entered, "none" when an
\* assertion failed before any was.
from_csv_match(gen_type, data, target_speed, target_accel) ==
    CASE gen_type = "AssertionError" ->
            FromCsvResult("NONE", "none", data,
                          Generated("AssertionError", data.velocity_sequences, <<>>, <<>>))
      [] gen_type = "NONE" ->
            IF ~contains_time_data(data) \/ ~contains_position_data(data)
               \/ ~contains_velocity_data(data)
            THEN FromCsvResult(gen_type, "none", data,
                     Generated("AssertionError", data.velocity_sequences, <<>>, <<>>))
            ELSE FromCsvResult(gen_type, "from_parameter_sequences", data,
                     from_parameter_sequences(data.time_sequence, data.position_sequences,
                                              data.velocity_sequences))
      [] gen_type = "TIME_AND_VELOCITY" ->
            IF target_speed = None \/ target_accel = None
               \/ ~contains_position_data(data)
            THEN FromCsvResult(gen_type, "none", data,
                     Generated("AssertionError", data.velocity_sequences, <<>>, <<>>))
            ELSE FromCsvResult(gen_type, "generate_times_and_velocities", data,
                     profile_returned(data.velocity_sequences,
                                      generate_times_and_velocities(
                                          data.position_sequences, target_speed,
                                          target_accel, None)))
      [] gen_type = "POSITION" ->
            IF ~contains_time_data(data) \/ ~contains_velocity_data(data)
            THEN FromCsvResult(gen_type, "none", data,
                     Generated("AssertionError", data.velocity_sequences, <<>>, <<>>))
            ELSE FromCsvResult(gen_type, "generate_positions", data,
                     generate_positions(data.time_sequence, data.velocity_sequences))
      [] gen_type = "VELOCITY" ->
            IF ~contains_time_data(data) \/ ~contains_position_data(data)
               \/ ~contains_velocity_data(data)
            THEN FromCsvResult(gen_type, "none", data,
                     Generated("AssertionError", data.velocity_sequences, <<>>, <<>>))
            ELSE FromCsvResult(gen_type, "generate_velocities", data,
                     generate_velocities(data.time_sequence, data.position_sequences,
                                         data.velocity_sequences))

\* from_csv once the file is read
from_csv_data(data, target_speed, target_accel) ==
    IF data.status # "returned"
    THEN FromCsvResult("NONE", "none", NoData, Generated(data.status, <<>>, <<>>, <<>>))
    ELSE from_csv_match(GenerationType(data), data, target_speed, target_accel)

\* from_csv(filename, target_speed, target_accel)
from_csv(file, target_speed, target_accel) ==
    from_csv_data(CSVData(file), target_speed, target_accel)

(***************************************************************************)
(* The files read.                                                         *)
(***************************************************************************)
MaxCsvRows == 3

Text(i) ==
    CASE i = -1 -> "-1"
      [] i = 0 -> "0"
      [] i = 1 -> "1"
      [] i = 2 -> "2"
      [] OTHER -> "3"

\* A header of an optional time column, position columns and velocity columns.
CsvHeaders ==
    {(IF has_time THEN <<{"time"}>> ELSE <<>>)
        \o List([k \in 1 .. num_pos |-> {"pos"}])
        \o List([k \in 1 .. num_vel |-> {"vel"}]) :
        has_time \in BOOLEAN, num_pos \in 0 .. 2, num_vel \in 0 .. 2}

\* The cell of row r under header cell `column` (the k-th of its kind):
\* increasing times or an empty time cell, positions of a profile or an
\* empty position cell, a velocity for the rows of `given`.
CsvCell(column, k, r, n, time_filled, pos_filled, given) ==
    IF "time" \in column THEN (IF time_filled THEN Text(r - 1) ELSE "")
    ELSE IF "pos" \in column
    THEN (IF ~pos_filled THEN ""
          ELSE IF k = 1 THEN Text(PositionProfile1(r)) ELSE Text(PositionProfile2(r)))
    ELSE IF (IF k = 1 THEN r ELSE n + 1 - r) \in given
    THEN Text(VelocityProfile(r))
    ELSE ""

\* The place of column c among the columns of its kind
KindIndex(header, c) == Cardinality({j \in 1 .. c : header[j] = header[c]})

CsvFiles ==
    {[header |-> header,
      rows |-> List([r \in 1 .. n |->
                   List([c \in 1 .. Len(header) |->
                       CsvCell(header[c], KindIndex(header, c), r, n,
                               time_filled, pos_filled, given)])])] :
        header \in CsvHeaders, n \in 0 .. MaxCsvRows,
        time_filled \in BOOLEAN, pos_filled \in BOOLEAN,
        given \in SUBSET (1 .. MaxCsvRows)}

\* Files of four rows of positions along one axis, a straight path and one
\* that turns back, with no other column, with an empty velocity column or
\* with an empty time column.
PathFilesOf(list) ==
    {[header |-> header,
      rows |-> List([r \in 1 .. 4 |->
                   List([c \in 1 .. Len(header) |->
                       IF "pos" \in header[c] THEN Text(list[r]) ELSE ""])])] :
        header \in {<<{"pos"}>>, <<{"pos"}, {"vel"}>>, <<{"time"}, {"pos"}>>}}

PathFiles == PathFilesOf(<<0, 1, 2, 3>>) \cup PathFilesOf(<<0, 1, 3, 2>>)

Targets == {None, R(1)}

InitCsv ==
    /\ points = <<>>
    /\ segments = <<>>
    /\ call = NoCall
    /\ time_sequence = <<>>
    /\ position_sequences = <<>>
    /\ velocity_sequences = <<>>
    /\ velocity_input = <<>>
    /\ csv \in CsvFiles \cup PathFiles
    /\ rounding \in IF csv \in PathFilesOf(<<0, 1, 3, 2>>)
                     THEN ProfileRoundings(<<Keypoints(<<0, 1, 3, 2>>)>>) ELSE {Unrounded}

\* What from_csv leaves: the Sequence returned and the lists of the CSVData
\* object as the call leaves them.
FromCsvOutcome(res, target_speed, target_accel) ==
    /\ points' = res.points
    /\ segments' = res.segments
    /\ call' = Call("from_csv", res.status, NoPoint, NoTime, 0,
                    <<res.gen_type, target_speed, target_accel, res.entered>>)
    /\ time_sequence' = res.time_sequence
    /\ position_sequences' = res.position_sequences
    /\ velocity_sequences' = res.velocity_sequences
    /\ velocity_input' = res.velocity_read
    /\ UNCHANGED files

\* Sequence.from_csv(csv, target_speed, target_accel)
FromCsv(target_speed, target_accel) ==
    FromCsvOutcome(from_csv(csv, target_speed, target_accel), target_speed, target_accel)

NextCsv == \E target_speed \in Targets, target_accel \in Targets :
               FromCsv(target_speed, target_accel)

SpecCsv == InitCsv /\ [][NextCsv]_vars


(***************************************************************************)
(* Properties of append and evaluation.                                    *)
(***************************************************************************)
SegmentNames == {"Segment.position", "Segment.velocity", "Segment.acceleration"}

LastPoint == points[Len(points)]

\* the indices of the points whose time is s
PointsAt(s) == {i \in 1 .. Len(points) : points[i].time = s}

Field(point, f) == IF f = "position" THEN point.position ELSE point.velocity

\* C4, as stated, on Sequences that hold a Segment: evaluating position or
\* velocity at the time of any point of the Sequence returns that point's
\* position or velocity.
C4_EveryPointReproduced ==
    (/\ call.name \in {"position", "velocity"}
     /\ call.time.e = 0
     /\ Len(points) >= 2)
    => \A i \in PointsAt(call.time.s) :
          /\ call.status = "returned"
          /\ call.value = Field(points[i], call.name)

\* C4, amended: in a Sequence of two or more points, evaluating position or
\* velocity at the time of a point whose time no other point shares returns
\* that point's position or velocity.
C4_UniqueTimePointReproduced ==
    (/\ call.name \in {"position", "velocity"}
     /\ call.time.e = 0
     /\ Len(points) >= 2)
    => \A i \in PointsAt(call.time.s) :
          PointsAt(call.time.s) = {i}
          => /\ call.status = "returned"
             /\ call.value = Field(points[i], call.name)

\* The velocity was asked at the time of the last of three points with
\* distinct times, and the Segment before it has a non-zero c3.
C4_Witness ==
    /\ call.name = "velocity"
    /\ call.status = "returned"
    /\ Len(points) = 3
    /\ call.time = T(points[3].time, 0)
    /\ PointsAt(points[3].time) = {3}
    /\ calculate_coefficients(segments[2])[1][4] # Zero
    /\ RSub(points[3].time, points[2].time) = R(2)

\* C6: the stored times never decrease, all stored points have one
\* dimension, and an append that returned did not go back in time or change
\* the dimension (so an append that does fails).
C6_OrderedSameDimension ==
    /\ \A i \in 1 .. Len(points) - 1 :
          /\ RLe(points[i].time, points[i + 1].time)
          /\ Dim(points[i]) = Dim(points[i + 1])
    /\ (/\ call.name = "append_point"
        /\ Len(points) >= 1
        /\ \/ RLt(call.point.time, LastPoint.time)
           \/ Dim(call.point) # Dim(LastPoint))
       => call.status = "AssertionError"

\* An append of an earlier time on a Sequence of two points failed.
C6_Witness ==
    /\ call.name = "append_point"
    /\ call.status = "AssertionError"
    /\ Len(points) = 2
    /\ RLt(call.point.time, LastPoint.time)
    /\ Dim(call.point) = Dim(LastPoint)

\* C7: a step that is a failed append_point changes neither the points nor
\* the segments.
C7_FailedAppendChangesNothing ==
    [][(call'.name = "append_point" /\ call'.status # "returned")
        => (points' = points /\ segments' = segments)]_vars

\* An append failed on a Sequence that holds points and a Segment.
C7_Witness ==
    /\ call.name = "append_point"
    /\ call.status = "AssertionError"
    /\ Len(points) >= 2
    /\ Len(segments) >= 1

\* C8: a Sequence with a point holds one Segment fewer than points, and
\* Segment i joins point i to point i + 1.
C8_SegmentsJoinConsecutivePoints ==
    Len(points) >= 1
    => /\ Len(segments) = Len(points) - 1
       /\ \A i \in 1 .. Len(segments) :
             /\ segments[i].start_point = points[i]
             /\ segments[i].end_point = points[i + 1]

\* Three different points are stored, and the last append failed.
C8_Witness ==
    /\ Len(points) = 3
    /\ Len(segments) = 2
    /\ points[1] # points[2]
    /\ points[2] # points[3]
    /\ call.name = "append_point"
    /\ call.status = "AssertionError"

\* the largest index below the last whose point has time s
LastInteriorAt(s) ==
    CHOOSE i \in 2 .. Len(points) - 1 :
        /\ points[i].time = s
        /\ \A j \in i + 1 .. Len(points) - 1 : points[j].time # s

\* C9: on a Sequence with a point, an evaluation at a time from start_time
\* to end_time returns a value, computed by a Segment whose span holds the
\* time; at the time of an interior point it is the Segment that starts at
\* the last such point.
C9_InRangeEvaluates ==
    (/\ call.name \in Methods
     /\ Len(points) >= 1
     /\ TLe(T(points[1].time, 0), call.time)
     /\ TLe(call.time, T(LastPoint.time, 0)))
    => /\ call.status = "returned"
       /\ call.index \in 1 .. Len(segments)
       /\ TLe(T(segments[call.index].start_point.time, 0), call.time)
       /\ TLe(call.time, T(segments[call.index].end_point.time, Tol14))
       /\ (call.time.e = 0 /\ PointsAt(call.time.s) \cap (2 .. Len(points) - 1) # {})
          => segments[call.index].start_point = points[LastInteriorAt(call.time.s)]

\* C10: an evaluation of a Segment at a time before its start or more than
\* 1e-14 after its end raises and returns nothing, and so does an evaluation
\* of a Sequence before start_time, more than 1e-14 after end_time, or with
\* no points.
C10_OutOfRangeRaises ==
    /\ (/\ call.name \in SegmentNames
        /\ \/ TLt(call.time, T(segments[call.index].start_point.time, 0))
           \/ TLt(T(segments[call.index].end_point.time, Tol14), call.time))
       => (call.status = "AssertionError" /\ call.value = <<>>)
    /\ (/\ call.name \in Methods
        /\ \/ Len(points) = 0
           \/ TLt(call.time, T(points[1].time, 0))
           \/ TLt(T(LastPoint.time, Tol14), call.time))
       => (call.status = "AssertionError" /\ call.value = <<>>)

\* A Segment was evaluated 2e-14 after its end and raised.
C10_Witness ==
    /\ call.name = "Segment.position"
    /\ call.status = "AssertionError"
    /\ call.time = T(segments[call.index].end_point.time, 2)

\* A Segment was constructed, from start_point and end_point as given.
SegmentConstructed == call.name = "Segment"

\* C11: Segment(start, end) on points of equal dimension raises and builds
\* nothing when end.time < start.time, and returns a Segment from start to
\* end when end.time >= start.time, equal times included.
C11_SegmentOrdering ==
    (SegmentConstructed /\ Dim(call.value.start_point) = Dim(call.value.end_point))
    => IF RLt(call.value.end_point.time, call.value.start_point.time)
       THEN /\ call.status = "AssertionError"
            /\ call.value.segment = None
       ELSE /\ call.status = "returned"
            /\ call.value.segment.start_point = call.value.start_point
            /\ call.value.segment.end_point = call.value.end_point

\* A Segment was built from two different points of two axes with one time.
C11_Witness ==
    /\ SegmentConstructed
    /\ call.status = "returned"
    /\ Dim(call.value.start_point) = 2
    /\ call.value.end_point.time = call.value.start_point.time
    /\ call.value.end_point.position # call.value.start_point.position

\* C12: for a Segment with end.time > start.time, in every axis the cubic of
\* the stored coefficients has the position and velocity of the start point
\* at start.time and the position and velocity of the end point at end.time.
C12_CubicMatchesEndpoints ==
    (/\ SegmentConstructed
     /\ call.status = "returned"
     /\ RLt(call.value.start_point.time, call.value.end_point.time))
    => LET segment == call.value.segment
           start == call.value.start_point
           end == call.value.end_point
       IN  /\ SegmentPositionValue(segment, T(start.time, 0)) = start.position
           /\ SegmentVelocityValue(segment, T(start.time, 0)) = start.velocity
           /\ SegmentPositionValue(segment, T(end.time, 0)) = end.position
           /\ SegmentVelocityValue(segment, T(end.time, 0)) = end.velocity

\* A Segment of two axes was built over a span of 3/2 with c2 and c3 not zero
\* in the first axis.
C12_Witness ==
    /\ SegmentConstructed
    /\ call.status = "returned"
    /\ Dim(call.value.start_point) = 2
    /\ RSub(call.value.end_point.time, call.value.start_point.time) = Rat(3, 2)
    /\ calculate_coefficients(call.value.segment)[1][3] # Zero
    /\ calculate_coefficients(call.value.segment)[1][4] # Zero

(***************************************************************************)
(* Properties of the generation calls                                      *)
(***************************************************************************)
GenerationReturned(name) == call.name = name /\ call.status = "returned"

StrictlyIncreasing(time_seq) ==
    \A i \in 1 .. Len(time_seq) - 1 : RLt(time_seq[i], time_seq[i + 1])

Axes == 1 .. Len(position_sequences)

\* C3: generate_velocities called with velocity lists (some values given,
\* some missing) on one or more strictly increasing times returns; the
\* returned Sequence has one point per time with the input time and
\* positions, every velocity of every point is a number, and every velocity
\* given in the input is the velocity of its point.
C3_GivenKeptMissingFilled ==
    (call.name = "generate_velocities" /\ velocity_input # None)
    => /\ (Len(time_sequence) >= 1 /\ StrictlyIncreasing(time_sequence))
              => call.status = "returned"
       /\ call.status = "returned"
              => /\ Len(points) = Len(time_sequence)
                 /\ \A i \in 1 .. Len(points) :
                       /\ points[i].time = time_sequence[i]
                       /\ Dim(points[i]) = Len(position_sequences)
                       /\ \A d \in Axes :
                             /\ points[i].position[d] = position_sequences[d][i]
                             /\ points[i].velocity[d] # None
                             /\ velocity_input[d][i] # None
                                    => points[i].velocity[d] = velocity_input[d][i]

\* C3 witness: a returned call on five points and two axes whose first axis
\* gave the velocity of the middle point only, so both endpoints and two
\* separate interior gaps were filled.
C3_Witness ==
    /\ GenerationReturned("generate_velocities")
    /\ velocity_input # None
    /\ Len(points) = 5
    /\ Len(velocity_input) = 2
    /\ velocity_input[1][1] = None
    /\ velocity_input[1][2] = None
    /\ velocity_input[1][3] # None
    /\ velocity_input[1][4] = None
    /\ velocity_input[1][5] = None
    /\ points[2].velocity[1] # Zero
    /\ points[3].velocity[1] = velocity_input[1][3]

\* The acceleration, in axis d, of segment k at the time of point i
JunctionAcceleration(k, i, d) ==
    SegmentAccelerationValue(segments[k], T(points[i].time, 0))[d]

InteriorPoints == 2 .. Len(points) - 1

SomeVelocityMissing ==
    \/ velocity_input = None
    \/ \E d \in 1 .. Len(velocity_input) : \E i \in 1 .. Len(velocity_input[d]) :
           velocity_input[d][i] = None

\* C5 as stated: in a Sequence returned by generate_velocities (velocities
\* all missing or some missing) or by generate_positions, at every interior
\* point the acceleration at the end of the segment before it equals the
\* acceleration at the start of the segment after it, in every axis.
C5_AccelerationContinuousEverywhere ==
    (\/ GenerationReturned("generate_velocities") /\ SomeVelocityMissing
     \/ GenerationReturned("generate_positions"))
    => \A i \in InteriorPoints : \A d \in 1 .. Dim(points[i]) :
           JunctionAcceleration(i - 1, i, d) = JunctionAcceleration(i, i, d)

\* Whether the velocity of point i in axis d was generated by the call.
VelocityWasGenerated(i, d) ==
    \/ velocity_input = None
    \/ velocity_input[d][i] = None

\* C5 amended: in a Sequence returned by generate_positions the acceleration
\* is continuous at every interior point in every axis; in a Sequence
\* returned by generate_velocities it is continuous, in an axis, at every
\* interior point whose velocity in that axis was missing in the input (every
\* interior point when no velocities were passed).
C5_AccelerationContinuousWhereGenerated ==
    /\ GenerationReturned("generate_positions")
           => \A i \in InteriorPoints : \A d \in 1 .. Dim(points[i]) :
                  JunctionAcceleration(i - 1, i, d) = JunctionAcceleration(i, i, d)
    /\ GenerationReturned("generate_velocities")
           => \A i \in InteriorPoints : \A d \in 1 .. Dim(points[i]) :
                  VelocityWasGenerated(i, d)
                      => JunctionAcceleration(i - 1, i, d) = JunctionAcceleration(i, i, d)

\* C5 witness: a returned generate_velocities on five points in which points
\* 2 and 4 had no velocity and point 3 had one; the acceleration is
\* continuous and not zero at point 2 and jumps at point 3.
C5_Witness ==
    /\ GenerationReturned("generate_velocities")
    /\ velocity_input # None
    /\ Len(points) = 5
    /\ velocity_input[1][2] = None
    /\ velocity_input[1][3] # None
    /\ velocity_input[1][4] = None
    /\ JunctionAcceleration(1, 2, 1) = JunctionAcceleration(2, 2, 1)
    /\ JunctionAcceleration(1, 2, 1) # Zero
    /\ JunctionAcceleration(2, 3, 1) # JunctionAcceleration(3, 3, 1)

\* C16 as stated: a generation call leaves the lists passed to it as they
\* were: time_sequence, position_sequences and velocity_sequences hold after
\* the call what they held before it, None entries included.
C16_ArraysUnchanged ==
    [][/\ time_sequence' = time_sequence
       /\ position_sequences' = position_sequences
       /\ velocity_sequences' = velocity_sequences]_vars

\* A velocity list with 0 at the first and the last point where it has none
EndsAtRest(vel) ==
    List([i \in 1 .. Len(vel) |-> IF i \in {1, Len(vel)} /\ vel[i] = None THEN Zero ELSE vel[i]])

\* The maximal runs <<a, b>> of consecutive interior points without a velocity
MissingRuns(vel) ==
    {run \in (2 .. Len(vel) - 1) \X (2 .. Len(vel) - 1) :
        /\ run[1] <= run[2]
        /\ \A i \in run[1] .. run[2] : vel[i] = None
        /\ EndsAtRest(vel)[run[1] - 1] # None
        /\ EndsAtRest(vel)[run[2] + 1] # None}

\* The calls of the solver made for axis d are one call per maximal run, on
\* the slice from the point before it to the point after it, with the
\* velocities of these two points, and the list of the axis holds on the slice
\* what such a call returns.
RunsSolvedOnce(d, solves) ==
    /\ Len(solves) = Cardinality(MissingRuns(velocity_input[d]))
    /\ {<<solves[k].start + 1, solves[k].stop - 1>> : k \in 1 .. Len(solves)}
           = MissingRuns(velocity_input[d])
    /\ \A k \in 1 .. Len(solves) :
           /\ solves[k].vel_start = EndsAtRest(velocity_input[d])[solves[k].start]
           /\ solves[k].vel_end = EndsAtRest(velocity_input[d])[solves[k].stop]
           /\ \A i \in solves[k].start + 1 .. solves[k].stop - 1 :
                  velocity_input[d][i] = None
           /\ SubSeq(velocity_sequences[d], solves[k].start, solves[k].stop)
                  = generate_velocities_continuous_acceleration(
                        SubSeq(position_sequences[d], solves[k].start, solves[k].stop),
                        SubSeq(time_sequence, solves[k].start, solves[k].stop),
                        EndsAtRest(velocity_input[d])[solves[k].start],
                        EndsAtRest(velocity_input[d])[solves[k].stop]).value

\* The calls of the solver that generate_velocities makes on the lists passed
SolvesOf(passed) ==
    generate_some_velocities(
        1, [status |-> "returned", velocity_sequences |-> passed, solves |-> <<>>],
        position_sequences, time_sequence).solves

\* C24: in a generate_velocities that was passed velocity lists and returned,
\* in every axis a missing velocity of the first or last point is 0, the
\* solver is called exactly once for every maximal run of missing interior
\* velocities, on the slice from the point before the run to the point after
\* it with the velocities of these two points as boundary values, and no
\* given velocity lies strictly inside a slice.
C24_OneSolvePerRun ==
    (GenerationReturned("generate_velocities") /\ velocity_input # None)
    => \A d \in 1 .. Len(position_sequences) :
           /\ \A i \in {1, Len(time_sequence)} :
                  velocity_input[d][i] = None => points[i].velocity[d] = Zero
           /\ RunsSolvedOnce(d, SolvesOf(velocity_input)[d])

\* C24 witness: a returned call on five points of which only the third had a
\* velocity: the ends were set to 0 and the solver was called twice, for
\* point 2 and for point 4.
C24_Witness ==
    /\ GenerationReturned("generate_velocities")
    /\ velocity_input # None
    /\ Len(time_sequence) = 5
    /\ velocity_input[1] = <<None, None, R(VelocityProfile(3)), None, None>>
    /\ MissingRuns(velocity_input[1]) = {<<2, 2>>, <<4, 4>>}
    /\ Len(SolvesOf(velocity_input)[1]) = 2
    /\ points[1].velocity[1] = Zero
    /\ points[5].velocity[1] = Zero
    /\ points[2].velocity[1] # Zero

(***************************************************************************)
(* Properties of from_csv                                                  *)
(***************************************************************************)
\* The cells of the file under the columns named by a keyword
CellsOf(file, keyword) ==
    {file.rows[r][c] : r \in 1 .. Len(file.rows), c \in ColumnsNamed(file.header, keyword)}

FileHasData(file, keyword) == \E cell \in CellsOf(file, keyword) : cell # ""
FileHasAllData(file, keyword) ==
    CellsOf(file, keyword) # {} /\ \A cell \in CellsOf(file, keyword) : cell # ""
FileHasSomeData(file, keyword) ==
    FileHasData(file, keyword) /\ ~FileHasAllData(file, keyword)

FromCsvEnded == call.name = "from_csv"

\* C1 as stated: from_csv on a file with time data and position data and no
\* velocity data (no velocity column, or every velocity cell empty) returns
\* a Sequence with one point per row, each with the time and positions of
\* its row and a number for the velocity of every axis.
C1_NoVelocityGeneratesVelocities ==
    (/\ FromCsvEnded
     /\ FileHasAllData(csv, "time")
     /\ FileHasAllData(csv, "pos")
     /\ ~FileHasData(csv, "vel"))
    => /\ call.status = "returned"
       /\ Len(points) = Len(csv.rows)
       /\ \A i \in 1 .. Len(points) :
             /\ points[i].time = time_sequence[i]
             /\ \A d \in 1 .. Len(position_sequences) :
                   /\ points[i].position[d] = position_sequences[d][i]
                   /\ points[i].velocity[d] # None

\* The combinations of present fields that from_csv does not support
UnsupportedCombination(file) ==
    \/ ~FileHasData(file, "time") /\ FileHasData(file, "vel")
    \/ ~FileHasData(file, "pos") /\ ~FileHasData(file, "time")
    \/ ~FileHasData(file, "pos") /\ ~FileHasData(file, "vel")
    \/ ~FileHasData(file, "pos") /\ FileHasSomeData(file, "vel")

\* C2: from_csv raises, and returns no Sequence and enters no generator, when
\* time is absent and some velocity value is present, when position and time
\* are both absent, and when position is absent and velocity is absent or
\* only partly given.
C2_UnsupportedCombinationFails ==
    (FromCsvEnded /\ UnsupportedCombination(csv))
    => /\ call.status \in {"AssertionError", "ValueError"}
       /\ points = <<>>

\* C2 witness: a file of three rows with two position columns and two
\* velocity columns holding some velocities and no time column was refused,
\* though both targets were given.
C2_Witness ==
    /\ FromCsvEnded
    /\ call.status = "AssertionError"
    /\ call.value[2] # None
    /\ call.value[3] # None
    /\ Len(csv.rows) = 3
    /\ ColumnsNamed(csv.header, "time") = {}
    /\ Cardinality(ColumnsNamed(csv.header, "pos")) = 2
    /\ FileHasAllData(csv, "pos")
    /\ FileHasSomeData(csv, "vel")

\* C13 as stated: from_csv on a file that holds position data and no time
\* data and no velocity data (no such column, or every cell of it empty)
\* raises, returns no Sequence and enters no generator when target_speed or
\* target_accel is None, and enters generate_times_and_velocities when both
\* are given.
C13_PositionOnlyNeedsTargets ==
    (/\ FromCsvEnded
     /\ FileHasAllData(csv, "pos")
     /\ ~FileHasData(csv, "time")
     /\ ~FileHasData(csv, "vel"))
    => IF call.value[2] = None \/ call.value[3] = None
       THEN /\ call.status # "returned"
            /\ points = <<>>
            /\ call.value[4] = "none"
       ELSE call.value[4] = "generate_times_and_velocities"

\* C14 as stated, for the files without a position column: from_csv on a
\* file with time data, a velocity in every velocity cell and no position
\* data enters generate_positions and returns a Sequence with one point per
\* row, each with the time and the velocities of its row.
C14_NoPositionGeneratesPositions ==
    (/\ FromCsvEnded
     /\ FileHasAllData(csv, "time")
     /\ FileHasAllData(csv, "vel")
     /\ ColumnsNamed(csv.header, "pos") = {})
    => /\ call.status = "returned"
       /\ call.value[4] = "generate_positions"
       /\ Len(points) = Len(csv.rows)
       /\ \A i \in 1 .. Len(points) :
             /\ points[i].time = time_sequence[i]
             /\ \A d \in 1 .. Len(velocity_input) :
                   points[i].velocity[d] = velocity_input[d][i]

\* C14, amended: from_csv on a file of at least two rows with strictly
\* increasing times, a velocity in every velocity cell and no position column
\* enters generate_positions and returns a Sequence with one point per row,
\* each with the time and the velocities of its row.
C14_TwoRowsGeneratePositions ==
    (/\ FromCsvEnded
     /\ FileHasAllData(csv, "time")
     /\ FileHasAllData(csv, "vel")
     /\ ColumnsNamed(csv.header, "pos") = {}
     /\ Len(csv.rows) >= 2
     /\ StrictlyIncreasing(time_sequence))
    => /\ call.status = "returned"
       /\ call.value[4] = "generate_positions"
       /\ Len(points) = Len(csv.rows)
       /\ \A i \in 1 .. Len(points) :
             /\ points[i].time = time_sequence[i]
             /\ \A d \in 1 .. Len(velocity_input) :
                   points[i].velocity[d] = velocity_input[d][i]

\* C14 witness: a file of three rows with a time column, two velocity
\* columns with a velocity in every cell and no position column gave a
\* Sequence of three points, the last of them moving.
C14_Witness ==
    /\ FromCsvEnded
    /\ call.status = "returned"
    /\ call.value[4] = "generate_positions"
    /\ ColumnsNamed(csv.header, "pos") = {}
    /\ Cardinality(ColumnsNamed(csv.header, "vel")) = 2
    /\ FileHasAllData(csv, "vel")
    /\ Len(csv.rows) = 3
    /\ Len(points) = 3
    /\ points[3].velocity[1] # Zero

\* The rows of a file as Points: the cells under the position columns, the
\* cells under the velocity columns and the cell under the time column.
RowPoints(file) ==
    List([r \in 1 .. Len(file.rows) |->
        Point(List([k \in 1 .. Cardinality(ColumnsNamed(file.header, "pos")) |->
                  float(file.rows[r][SortedIndices(ColumnsNamed(file.header, "pos"))[k]])]),
              List([k \in 1 .. Cardinality(ColumnsNamed(file.header, "vel")) |->
                  float(file.rows[r][SortedIndices(ColumnsNamed(file.header, "vel"))[k]])]),
              float(file.rows[r][SortedIndices(ColumnsNamed(file.header, "time"))[1]]))])

\* Sequence(points): the points appended one by one
RECURSIVE SequenceOf(_, _, _)
SequenceOf(point_list, i, built) ==
    IF built.raised \/ i > Len(point_list)
    THEN built
    ELSE SequenceOf(point_list, i + 1,
                    append_point(built.points, built.segments, point_list[i]))

\* The rows hold a time, a position for every axis and a velocity for every
\* axis.
AllFieldsPresent(file) ==
    /\ FileHasAllData(file, "time")
    /\ FileHasAllData(file, "pos")
    /\ FileHasAllData(file, "vel")
    /\ Cardinality(ColumnsNamed(file.header, "pos"))
           = Cardinality(ColumnsNamed(file.header, "vel"))

\* C15: when every row holds a time, a position for every axis and a
\* velocity for every axis, from_csv enters from_parameter_sequences and no
\* generation function, and the Sequence returned is the one Sequence(points)
\* builds from the rows: the same points in the same order, the same segments
\* and so the same position and velocity at the time of every point.
C15_AllPresentBuildsDirectly ==
    (FromCsvEnded /\ AllFieldsPresent(csv))
    => /\ call.value[1] = "NONE"
       /\ call.value[4] = "from_parameter_sequences"
       /\ call.status = "returned"
       /\ ~SequenceOf(RowPoints(csv), 1, Returned(<<>>, <<>>)).raised
       /\ points = RowPoints(csv)
       /\ points = SequenceOf(RowPoints(csv), 1, Returned(<<>>, <<>>)).points
       /\ segments = SequenceOf(RowPoints(csv), 1, Returned(<<>>, <<>>)).segments
       /\ \A i \in 1 .. Len(points) : \A f \in {"position", "velocity"} :
             SequenceEval(f, points, segments, T(points[i].time, 0))
                 = SequenceEval(f,
                                SequenceOf(RowPoints(csv), 1, Returned(<<>>, <<>>)).points,
                                SequenceOf(RowPoints(csv), 1, Returned(<<>>, <<>>)).segments,
                                T(points[i].time, 0))

\* C15 witness: a file of three complete rows with two position columns and
\* two velocity columns gave a Sequence of three points and two segments.
C15_Witness ==
    /\ FromCsvEnded
    /\ AllFieldsPresent(csv)
    /\ call.value[4] = "from_parameter_sequences"
    /\ call.status = "returned"
    /\ Cardinality(ColumnsNamed(csv.header, "pos")) = 2
    /\ Len(csv.rows) = 3
    /\ Len(points) = 3
    /\ Len(segments) = 2

\* C17 as stated: when from_parameter_sequences or generate_velocities is
\* given a number of velocity axes that differs from the number of position
\* axes, it raises and no Sequence is returned.
C17_AxisCountMismatchFails ==
    (/\ FromCsvEnded
     /\ call.value[4] \in {"from_parameter_sequences", "generate_velocities"}
     /\ Len(velocity_input) # Len(position_sequences))
    => /\ call.status # "returned"
       /\ points = <<>>

\* C18 as stated: a time column or position columns whose cells are all
\* empty count as absent.  With position data, no velocity data and both
\* targets, a file with an all-empty time column enters
\* generate_times_and_velocities; with time data and a velocity in every
\* velocity cell, a file with all-empty position columns enters
\* generate_positions.
C18_EmptyColumnIsAbsent ==
    /\ (/\ FromCsvEnded
        /\ ColumnsNamed(csv.header, "time") # {}
        /\ csv.rows # <<>>
        /\ ~FileHasData(csv, "time")
        /\ FileHasAllData(csv, "pos")
        /\ ~FileHasData(csv, "vel")
        /\ call.value[2] # None
        /\ call.value[3] # None)
       => /\ call.value[1] = "TIME_AND_VELOCITY"
          /\ call.value[4] = "generate_times_and_velocities"
    /\ (/\ FromCsvEnded
        /\ ColumnsNamed(csv.header, "pos") # {}
        /\ csv.rows # <<>>
        /\ ~FileHasData(csv, "pos")
        /\ FileHasAllData(csv, "time")
        /\ FileHasAllData(csv, "vel"))
       => /\ call.value[1] = "POSITION"
          /\ call.value[4] = "generate_positions"


(***************************************************************************)
(* Properties of generate_times_and_velocities                             *)
(***************************************************************************)
ProfileEnded == call.name = "generate_times_and_velocities"
ProfileReturned == ProfileEnded /\ call.status = "returned"

\* The square of the magnitude of a velocity, each component being a
\* rational or a rational times a square root
MagnitudeSquared(vec) == QSum(List([d \in 1 .. Len(vec) |-> Square(vec[d])]), Len(vec))

\* Whether the magnitude of a velocity is at most target_speed >= 0: a
\* velocity of the size of a rounding error lies above 0 and below every
\* target speed above 0.
WithinSpeed(vec, target_speed) ==
    IF \E d \in 1 .. Len(vec) : Coefficient(vec[d], -1) # Zero
    THEN QLt(Zero, target_speed)
    ELSE QLe(MagnitudeSquared(vec), QSq(target_speed))

\* C19: in a call with target_speed >= 0 the speed limit of every
\* calculation point is at most target_speed, after the backward pass and
\* after the forward pass, and the velocity of every point of the Sequence
\* returned has a magnitude of at most target_speed.
C19_SpeedWithinTarget ==
    (ProfileEnded /\ QLe(Zero, call.value.target_speed))
    => /\ \A i \in 1 .. Len(call.value.profile.backward_limits) :
             ~SpeedLt(SpeedOf(call.value.target_speed),
                      call.value.profile.backward_limits[i])
       /\ \A i \in 1 .. Len(call.value.profile.speed_limits) :
             ~SpeedLt(SpeedOf(call.value.target_speed),
                      call.value.profile.speed_limits[i])
       /\ \A i \in 1 .. Len(points) :
             WithinSpeed(points[i].velocity, call.value.target_speed)

\* C19 witness: a returned call with target_speed 2 on a path that turns
\* back, where the limit of one calculation point is the target speed, the
\* limit of another lies strictly between 0 and the target speed, and a
\* point of the Sequence moves at the target speed.
C19_Witness ==
    /\ ProfileReturned
    /\ call.value.target_speed = R(2)
    /\ call.value.profile.reversals # <<>>
    /\ \E i \in 1 .. Len(call.value.profile.speed_limits) :
           call.value.profile.speed_limits[i] = SpeedOf(R(2))
    /\ \E i \in 1 .. Len(call.value.profile.speed_limits) :
           /\ SpeedLt(AtRest, call.value.profile.speed_limits[i])
           /\ SpeedLt(call.value.profile.speed_limits[i], SpeedOf(R(2)))
    /\ \E i \in 1 .. Len(points) : MagnitudeSquared(points[i].velocity) = R(4)

\* The places inside the path where every axis changes its direction of
\* travel: the first derivative of every axis is zero there and its second
\* derivative is not.
FullReversals(geo_path) ==
    {r \in UNION {CriticalPoints(geo_path.tck[d]) : d \in 1 .. geo_path.dim} :
        /\ QLt(Zero, r)
        /\ QLt(r, R(1))
        /\ \A d \in 1 .. geo_path.dim :
              /\ dx_du(geo_path, r, 1)[d] = Zero
              /\ dx_du(geo_path, r, 2)[d] # Zero}

\* Whether the calculation points of `profile` hold the place r with a speed
\* limit of 0
AtRestAt(profile, r) ==
    \E i \in 1 .. Len(profile.u_calc) :
        /\ Place(profile.u_calc[i]) = r
        /\ profile.speed_limits[i] = AtRest

\* In a call that returned, every place where the path reverses in full is
\* a calculation point whose speed limit is 0, be the place strictly between
\* two of the calculation points laid out from the sample points or on one
\* of them.  SpecProfile has behaviours where this fails, every one of them
\* with a place on a calculation point whose floats are not of one side
\* (OneSided below).
FullReversalAtRest ==
    ProfileReturned
    => \A r \in FullReversals(GeometricPath(position_sequences).value) :
           AtRestAt(call.value.profile, r)

\* What the floats at the calculation point on the place r, where the path
\* reverses in full, tell of the path: nothing when no calculation point is
\* there; otherwise they are of one side when the float of the derivative of
\* every axis has the sign that the derivative has before r, or in every
\* axis the sign it has after r, which is the sign of the second derivative.
OneSided(geo_path, r) ==
    r \in DOMAIN rounding
    => \E side \in {-1, 1} :
           \A d \in 1 .. geo_path.dim :
               rounding[r].dx_du[d] = side * Sign(dx_du(geo_path, r, 2)[d])

\* The same of the reversals whose floats are of one side: the ones strictly
\* between two calculation points, and the ones on a calculation point where
\* the derivative of no axis is the float 0.0 and no two axes are left on
\* different sides of the turn.
FullReversalAtRestWhenOneSided ==
    ProfileReturned
    => \A r \in FullReversals(GeometricPath(position_sequences).value) :
           OneSided(GeometricPath(position_sequences).value, r)
           => AtRestAt(call.value.profile, r)

\* A path that reverses in full between two calculation points, and one
\* that does on a calculation point whose floats are of one side
ReversalBetweenPointsReached ==
    /\ ProfileReturned
    /\ \E r \in FullReversals(GeometricPath(position_sequences).value) :
           /\ r \notin DOMAIN rounding
           /\ AtRestAt(call.value.profile, r)

ReversalOnPointReached ==
    /\ ProfileReturned
    /\ \E r \in FullReversals(GeometricPath(position_sequences).value) :
           /\ r \in DOMAIN rounding
           /\ OneSided(GeometricPath(position_sequences).value, r)
           /\ AtRestAt(call.value.profile, r)

\* Once the calculation points are made, no two keys of reversals name the
\* same place of the path, the axes that reverse at one place being recorded
\* under one key.  SpecProfile has behaviours where this fails, every one of
\* them with a turn on a calculation point whose floats are not of one side.
OneKeyForOnePlace ==
    (ProfileEnded /\ call.value.profile.u_calc # <<>>)
    => \A k1, k2 \in DOMAIN call.value.profile.reversals :
           k1 # k2 => Place(call.value.profile.u_calc[k1])
                          # Place(call.value.profile.u_calc[k2])

OneKeyForOnePlaceWhenOneSided ==
    (ProfileEnded /\ call.value.profile.u_calc # <<>>)
    => \A k1, k2 \in DOMAIN call.value.profile.reversals :
           (/\ k1 # k2
            /\ OneSided(GeometricPath(position_sequences).value,
                        Place(call.value.profile.u_calc[k1])))
           => Place(call.value.profile.u_calc[k1])
                  # Place(call.value.profile.u_calc[k2])

\* What holds of the calculation points `profile` made on geo_path from the
\* points `subdivision` laid out between the samples, whatever the floats:
\* every key of reversals is an index of u_calc, the point at that index is
\* a zero of the derivative of every axis recorded under the key, and the
\* points of the subdivision are all still in u_calc, in order, with the
\* recorded points that were inserted among them.
KeysNameReversalPoints(profile, geo_path, subdivision) ==
    /\ DOMAIN profile.reversals \subseteq 1 .. Len(profile.u_calc)
    /\ \A k \in DOMAIN profile.reversals :
           \A j \in 1 .. Len(profile.reversals[k]) :
               dx_du(geo_path, profile.u_calc[k], 1)[profile.reversals[k][j]] = Zero
    /\ \A i \in 1 .. Len(profile.u_calc) - 1 :
           QLe(profile.u_calc[i], profile.u_calc[i + 1])
    /\ \A i \in 1 .. Len(profile.u_calc) :
           \/ i \in DOMAIN profile.reversals
           \/ \E j \in 1 .. Len(subdivision) : subdivision[j] = profile.u_calc[i]

KeysAreIndicesOfReversalPoints ==
    (ProfileEnded /\ call.value.profile.u_calc # <<>>)
    => KeysNameReversalPoints(call.value.profile,
                              GeometricPath(position_sequences).value,
                              subdivided(call.value.profile.u_sample))

\* A path that turns back twice between points of the subdivision: two
\* points were inserted, the second after the key of the first was recorded,
\* and each key is the index of a point that is no point of the subdivision.
TwoRootsInserted ==
    /\ ProfileEnded
    /\ Cardinality(DOMAIN call.value.profile.reversals) = 2
    /\ \A k \in DOMAIN call.value.profile.reversals :
           /\ call.value.profile.reversals[k] = <<1>>
           /\ k < Len(call.value.profile.u_calc)
           /\ \A j \in 1 .. Len(subdivided(call.value.profile.u_sample)) :
                  subdivided(call.value.profile.u_sample)[j]
                      # Place(call.value.profile.u_calc[k])
    /\ Len(call.value.profile.u_calc)
           = Len(subdivided(call.value.profile.u_sample)) + 2

\* Whether a speed limit `to` can be reached from the limit `from` over the
\* arc length `length` at target_accel: to^2 <= from^2 + 2 * target_accel * length
WithinReach(from, to, length, target_accel) ==
    QLe(to.sq, QAdd(from.sq, QMul(QMul(R(2), target_accel), length)))

\* C22: in a call that returned, the speed limits left by the two passes at
\* any two adjacent calculation points are within reach of each other in both
\* directions over the arc length between them, and so are the limits the
\* backward pass left in the direction of travel reversed.
C22_LimitsWithinReach ==
    ProfileReturned
    => \A i \in 1 .. Len(call.value.profile.speed_limits) - 1 :
           /\ WithinReach(call.value.profile.speed_limits[i],
                          call.value.profile.speed_limits[i + 1],
                          call.value.profile.segment_lengths[i],
                          call.value.target_accel)
           /\ WithinReach(call.value.profile.speed_limits[i + 1],
                          call.value.profile.speed_limits[i],
                          call.value.profile.segment_lengths[i],
                          call.value.target_accel)
           /\ WithinReach(call.value.profile.backward_limits[i + 1],
                          call.value.profile.backward_limits[i],
                          call.value.profile.segment_lengths[i],
                          call.value.target_accel)

\* C22 witness: a returned call on a path with a reversal in which the
\* forward pass lowered a limit of the backward pass, a limit is exactly at
\* the reach of the one before it and another exactly at the reach of the one
\* after it.
C22_Witness ==
    /\ ProfileReturned
    /\ call.value.profile.reversals # <<>>
    /\ \E i \in 1 .. Len(call.value.profile.speed_limits) :
           SpeedLt(call.value.profile.speed_limits[i], call.value.profile.backward_limits[i])
    /\ \E i \in 1 .. Len(call.value.profile.speed_limits) - 1 :
           /\ call.value.profile.speed_limits[i + 1].sgn = 1
           /\ call.value.profile.speed_limits[i + 1].sq
                  = QAdd(call.value.profile.speed_limits[i].sq,
                         QMul(QMul(R(2), call.value.target_accel),
                              call.value.profile.segment_lengths[i]))
    /\ \E i \in 1 .. Len(call.value.profile.speed_limits) - 1 :
           /\ call.value.profile.speed_limits[i].sgn = 1
           /\ call.value.profile.speed_limits[i].sq
                  = QAdd(call.value.profile.speed_limits[i + 1].sq,
                         QMul(QMul(R(2), call.value.target_accel),
                              call.value.profile.segment_lengths[i]))

\* C23 as stated: the time added for a sub-span whose two speed limits are
\* zero is sqrt(2 * dl / target_accel), its square times target_accel being
\* 2 * dl, and for any other sub-span it is dl divided by the average of the
\* two limits.
C23_TimeOfSubSpan ==
    ProfileEnded
    => \A k \in 1 .. Len(call.value.profile.time_steps) :
           IF /\ call.value.profile.time_steps[k].from = AtRest
              /\ call.value.profile.time_steps[k].to = AtRest
           THEN QMul(Square(call.value.profile.time_steps[k].time), call.value.target_accel)
                    = QMul(R(2), call.value.profile.time_steps[k].length)
           ELSE call.value.profile.time_steps[k].time
                    = length_over_speed(
                          call.value.profile.time_steps[k].length,
                          average_speed(call.value.profile.time_steps[k].from,
                                        call.value.profile.time_steps[k].to))

\* The keypoints (entries of _u) that a span from u0 to uf reaches over,
\* its ends included
KeypointsCovered(u, u0, uf) ==
    {i \in 1 .. Len(u) : QLe(u0, u[i]) /\ QLe(u[i], uf)}

\* C28 as stated: a call segment_length(u0, uf) with u0 <= uf takes its
\* result from the table of lengths at the keypoints when the span reaches
\* over two or more keypoints, and integrates the whole span directly when it
\* lies inside one keypoint interval.
C28_TableForLongSpans ==
    (/\ call.name = "segment_length"
     /\ call.status = "returned"
     /\ QLe(call.value.u0, call.value.uf))
    => /\ Cardinality(KeypointsCovered(call.value.u, call.value.u0, call.value.uf)) >= 2
              => ~call.value.direct
       /\ KeypointsCovered(call.value.u, call.value.u0, call.value.uf) = {}
              => call.value.direct

\* A call that got as far as the forward pass over sub-spans of non-negative
\* length with a positive target_accel
ForwardPassRan ==
    /\ ProfileEnded
    /\ call.value.profile.u_calc # <<>>
    /\ QLt(Zero, call.value.target_accel)
    /\ \A i \in 1 .. Len(call.value.profile.segment_lengths) :
           QLe(Zero, call.value.profile.segment_lengths[i])

\* No time added is negative, no append failed on the order of the times,
\* and the times of the points returned start at 0 and never decrease.
TimesNeverDecrease ==
    /\ call.status # "AssertionError"
    /\ \A k \in 1 .. Len(call.value.profile.time_steps) :
           NLe(Zero, call.value.profile.time_steps[k].time)
    /\ points # <<>> => points[1].time = Zero
    /\ \A i \in 1 .. Len(points) - 1 : NLe(points[i].time, points[i + 1].time)

\* C27 as stated: with sub-spans of non-negative length and a positive
\* target_accel, the times of the emitted points start at 0 and never
\* decrease, and no append fails the check of the time order.
C27_TimesOrdered ==
    ForwardPassRan => TimesNeverDecrease

\* C27 amended: the same, for a target_speed that is not negative.
C27_TimesOrderedAtSpeed ==
    (ForwardPassRan /\ QLe(Zero, call.value.target_speed)) => TimesNeverDecrease

\* C27 witness: a returned call with a positive target_speed on a path with a
\* reversal, where every sub-span was crossed at a positive average speed and
\* added time; the four points have increasing times from 0.
C27_Witness ==
    /\ ProfileReturned
    /\ ForwardPassRan
    /\ QLt(Zero, call.value.target_speed)
    /\ call.value.profile.reversals # <<>>
    /\ call.value.profile.time_steps # <<>>
    /\ \A k \in 1 .. Len(call.value.profile.time_steps) :
           /\ ~call.value.profile.time_steps[k].rest
           /\ NLt(Zero, call.value.profile.time_steps[k].time)
    /\ Len(points) = 4
    /\ points[1].time = Zero
    /\ \A i \in 1 .. 3 : NLt(points[i].time, points[i + 1].time)

\* C29: every Sequence returned by generate_times_and_velocities starts and
\* ends at rest: the speed limits of the first and of the last calculation
\* point are 0 after the backward pass and after the forward pass, and the
\* first and the last point have velocity 0 along every axis.
C29_StartsAndEndsAtRest ==
    ProfileReturned
    => /\ call.value.profile.backward_limits[1] = AtRest
       /\ call.value.profile.backward_limits[Len(call.value.profile.backward_limits)] = AtRest
       /\ call.value.profile.speed_limits[1] = AtRest
       /\ call.value.profile.speed_limits[Len(call.value.profile.speed_limits)] = AtRest
       /\ points # <<>>
       /\ \A d \in 1 .. Len(points[1].velocity) :
              /\ points[1].velocity[d] = Zero
              /\ points[Len(points)].velocity[d] = Zero

\* C29 witness: a returned call with a positive target_speed and a positive
\* target_accel whose Sequence moves at an interior point and is at rest at
\* both ends.
C29_Witness ==
    /\ ProfileReturned
    /\ QLt(Zero, call.value.target_speed)
    /\ QLt(Zero, call.value.target_accel)
    /\ Len(points) = 4
    /\ \E k \in 2 .. 3 : \E d \in 1 .. Len(points[k].velocity) :
           points[k].velocity[d] # Zero
    /\ \A d \in 1 .. Len(points[1].velocity) :
           /\ points[1].velocity[d] = Zero
           /\ points[4].velocity[d] = Zero

\* The length asked for at sample k of a resampled path: (k - 1) of the
\* resample_number - 1 parts of the length of the path
LengthAsked(k) ==
    QDiv(QMul(R(k - 1), GeometricPath(position_sequences).value.length_at_u[
                            Len(position_sequences[1])]),
         R(call.value.resample_number[1] - 1))

\* Every sample parameter computed for a resample_number lies at the length
\* asked for, measured along the path from its start.
SamplesAtLengthsAsked ==
    (ProfileEnded /\ call.value.resample_number # None
        /\ call.value.profile.u_sample # <<>>)
    => \A k \in 2 .. Len(call.value.profile.u_sample) - 1 :
          calculate_segment_length(GeometricPath(position_sequences).value, Zero,
                                   call.value.profile.u_sample[k])
              = LengthAsked(k)

\* A sample parameter that newton moved away from the linear estimate it
\* started from
NewtonLeavesEstimate ==
    /\ ProfileReturned
    /\ call.value.resample_number # None
    /\ \E k \in 2 .. Len(call.value.profile.u_sample) - 1 :
           call.value.profile.u_sample[k]
               # interp(LengthAsked(k),
                        GeometricPath(position_sequences).value.length_at_u,
                        GeometricPath(position_sequences).value.u)

\* The number of points asked for: one per position keypoint, or
\* resample_number
PointsAskedFor ==
    IF call.value.resample_number = None
    THEN Len(position_sequences[1])
    ELSE call.value.resample_number[1]

\* C26: generate_times_and_velocities emits one point per sample parameter,
\* in order, whatever was inserted between the samples: the Sequence returned
\* has as many points as there are position keypoints when resample_number is
\* None and resample_number points otherwise, and the position of point k is
\* the position of the path at u_sample[k].
C26_OnePointPerSample ==
    ProfileReturned
    => /\ Len(points) = Len(call.value.profile.u_sample)
       /\ Len(points) = PointsAskedFor
       /\ \A k \in 1 .. Len(points) :
              points[k].position
                  = PathPosition(GeometricPath(position_sequences).value,
                                 call.value.profile.u_sample[k])

(***************************************************************************)
(* Properties of the solvers called on their own.                          *)
(***************************************************************************)
SolverEnded ==
    call.name \in {"generate_velocities_continuous_acceleration",
                   "generate_positions_continuous_acceleration"}

EqualConsecutiveTimes(time_seq) ==
    \E i \in 1 .. Len(time_seq) - 1 : time_seq[i] = time_seq[i + 1]

\* C21: a call of either solver with fewer than 2 time points, or with two
\* equal consecutive times in any segment (the last one included), raises
\* and returns no list.
C21_DegenerateTimesFail ==
    (/\ SolverEnded
     /\ \/ Len(time_sequence) < 2
        \/ EqualConsecutiveTimes(time_sequence))
    => /\ call.status # "returned"
       /\ call.value.result = <<>>

\* C21 witness: the position solver has raised on times whose last segment
\* alone has delta time 0, where no division by delta_time is made.
C21_Witness ==
    /\ call.name = "generate_positions_continuous_acceleration"
    /\ Len(time_sequence) = 4
    /\ time_sequence[3] = time_sequence[4]
    /\ time_sequence[1] # time_sequence[2]
    /\ time_sequence[2] # time_sequence[3]
    /\ call.status = "LinAlgError"

\* C30 as stated: the list returned by
\* generate_positions_continuous_acceleration has one position per entry of
\* time_sequence, and its first position is pos_start.
C30_OnePositionPerTime ==
    (/\ call.name = "generate_positions_continuous_acceleration"
     /\ call.status = "returned")
    => /\ Len(call.value.result) = Len(time_sequence)
       /\ call.value.result[1] = call.value.start

==============================================================================
